---- MODULE Spec2Model ----
(***************************************************************************)
(* Verification orchestration of kolexstrings/kyc-verification.            *)
(*                                                                         *)
(* One verification run is modelled as a sequential process whose program  *)
(* counter pc names the remote call the run is awaiting.  Three            *)
(* implementations of the run exist in the repository and are selected by  *)
(* the variable impl:                                                      *)
(*   "workflow"   InnovatricsEventWorkflow.run with the fallback           *)
(*                face-match strategy       (src/src/config/env.ts:172)    *)
(*   "legacy"     InnovatricsEventWorkflow.run without decision gates      *)
(*                (src/src/workflows/innovatricsOrchestrationModule.ts:149)*)
(*   "controller" KYCVerificationController.processKYCProfile              *)
(*                (src/src/controllers/kycController.ts:152)               *)
(* Scores are integers in hundredths (0.64 is 64).                          *)
(***************************************************************************)
EXTENDS Integers, Sequences, FiniteSets, TLC

\* ------------------------------------------------------------------ bounds
MaxDocs == 2
MaxSupp == 2

\* ------------------------------------------------------- program constants
FACE_MATCH_SUCCESS_THRESHOLD == 64
LIVENESS_SUCCESS_STATUS == "live"
Retries == 3
NoScore == -1
NoStatus == 0
HttpOk == 200

Impls == {"workflow", "legacy", "controller"}

\* An image payload as the caller supplies it:
\*   "emptystr"  the empty string
\*   "ws"        a whitespace-only string
\*   "hdronly"   a non-blank string whose payload is empty once normalized
\*   "corrupt"   decodable base64 that is not an image
\*   "ok"        a valid image
Tokens == {"emptystr", "ws", "hdronly", "corrupt", "ok"}
ImageOrAbsent == Tokens \cup {"absent"}

SeqsUpTo(S, n) == UNION {[1..k -> S] : k \in 0..n}

DocInputs == SeqsUpTo(Tokens, MaxDocs)
SelfieInputs == SeqsUpTo(Tokens, MaxSupp)

\* Similarity scores a provider may answer, in hundredths.
ScoreSet == {30, 40, 50, 60, 64, 80}

\* HTTP results of a remote call: 200, an error status, or no status at all
\* (network error or timeout).
ErrStatus == {NoStatus, 400, 429, 503}
Resp == {HttpOk} \cup ErrStatus

NoErr == [op |-> "none", status |-> NoStatus, thrown |-> NoStatus]

RECURSIVE Join(_, _)
Join(s, sep) ==
  IF Len(s) = 0 THEN ""
  ELSE IF Len(s) = 1 THEN s[1]
  ELSE s[1] \o sep \o Join(Tail(s), sep)

RECURSIVE MaxOf(_)
MaxOf(s) ==
  IF Len(s) = 1 THEN s[1]
  ELSE LET m == MaxOf(Tail(s)) IN IF s[1] >= m THEN s[1] ELSE m

IsBlank(t) == t \in {"absent", "emptystr", "ws"}

\* toArray of the workflows: blank entries are filtered out of a list.
toArray(value) == SelectSeq(value, LAMBDA t : ~IsBlank(t))

\* toStringArray of the controller: the list as given.
toStringArray(value) == value

\* Boolean(x) of a string payload: only undefined and '' are falsy.
Truthy(t) == t \notin {"absent", "emptystr"}

At(s, i) == IF i <= Len(s) THEN s[i] ELSE "absent"

\* resolveImageSource: "ok", "null" (controller only) or "throw".
resolveWorkflow(t) == IF t = "hdronly" \/ IsBlank(t) THEN "throw" ELSE "ok"
resolveLegacy(t) == IF t = "ok" THEN "ok" ELSE "throw"
resolveController(t) ==
  IF IsBlank(t) \/ t = "hdronly" THEN "null"
  ELSE IF t = "corrupt" THEN "throw"
  ELSE "ok"

resolveImageSource(i, t) ==
  IF i = "workflow" THEN resolveWorkflow(t)
  ELSE IF i = "legacy" THEN resolveLegacy(t)
  ELSE resolveController(t)

\* Mutant: every error is classified retryable.
isRetryableAlways(i, status, att) == TRUE

\* isRetryableError as handed to withRetry by each implementation.
isRetryableError(i, status, att) ==
  IF status = NoStatus THEN (IF i = "controller" THEN TRUE ELSE att <= 3)
  ELSE status >= 500 \/ status = 429

\* withRetry's decision after a failed attempt (attempt already incremented).
retryAgain(i, status, att) == isRetryableError(i, status, att) /\ ~(att > Retries)

VARIABLES
  impl,               \* which implementation runs
  pc,                 \* the call the run awaits
  frontMissing,       \* the caller's front document slot was absent or blank
  selfieMissing,      \* the caller's primary selfie was absent or blank
  frontImg, backImg,  \* document images (raw token, "ok" once resolved, "none")
  selfieImg,          \* primary selfie
  supp,               \* supplemental selfie frames not yet visited
  customerId,         \* TRUE once the identity record exists
  overallStatus,      \* "none" before the result object exists
  attempt,            \* withRetry's attempt counter of the current call
  inspection,         \* result of the step-7 inspectCustomer
  faceSource,         \* image the reference face is detected in
  faceMatchScores, faceMatchScore, comparisonStrategy,
  faceComparisonSet,  \* verification.faceComparison has been assigned
  livenessStatus,
  livenessConfidence, \* livenessResult.confidence, in hundredths
  inspectionForLiveness, \* selfieInspection block the liveness was read from
  outcomes,           \* outcomes handed to the caller
  lastErr,            \* the error that aborted the run
  calls, lastCall,    \* provider calls issued
  remoteStatus,       \* onboardingStatus stored at the provider
  dbStatus,           \* status column of the audit row
  disclosedInspection, \* documentVerification.disclosedInspection
  retry,              \* one withRetry invocation: its locals and what it did
  norm,               \* one normalizeImagePayload experiment
  doc,                \* one verifyDocument summary: the pages and the summary
  audit,              \* the audit row and the recordRetry calls in flight
  pair,               \* runs executing concurrently against one provider
  mask                \* two runs that differ in the checkFaceMask response

\* The state of a verification run.
runVars == << impl, pc, frontMissing, selfieMissing, frontImg, backImg,
              selfieImg, supp, customerId, overallStatus, attempt, inspection,
              faceSource, faceMatchScores, faceMatchScore, comparisonStrategy,
              faceComparisonSet, livenessStatus, livenessConfidence,
              inspectionForLiveness, outcomes, lastErr, calls,
              lastCall, remoteStatus, dbStatus, disclosedInspection >>

vars == << runVars, retry, norm, doc, audit, pair, mask >>

\* The liveness result of the run.
livenessVars == << livenessStatus, livenessConfidence, inspectionForLiveness >>

\* withRetry and normalizeImagePayload when no experiment on them runs.
RetryIdle == [pc |-> "idle"]
NormIdle == [pc |-> "idle"]
DocIdle == [pc |-> "idle"]
AuditIdle == [pc |-> "idle"]
PairIdle == [pc |-> "idle"]
MaskIdle == [pc |-> "idle"]

CountedOps == {"createCustomer", "storeCustomer", "uploadSelfie", "inspectCustomer",
               "getDocumentPortrait", "detectDocFace", "getFaceTemplate",
               "compareFaces", "detectSuppFace"}

NoInspection == [kind |-> "unset", score |-> NoScore, selfie |-> "noblock"]

\* A run at the entry of run() / processKYCProfile.
RunInit ==
  /\ impl \in Impls
  /\ pc = "start"
  /\ frontMissing = FALSE
  /\ selfieMissing = FALSE
  /\ frontImg = "none"
  /\ backImg = "none"
  /\ selfieImg = "none"
  /\ supp = << >>
  /\ customerId = FALSE
  /\ overallStatus = "none"
  /\ attempt = 0
  /\ inspection = NoInspection
  /\ faceSource = "none"
  /\ faceMatchScores = << >>
  /\ faceMatchScore = NoScore
  /\ comparisonStrategy = "inspection"
  /\ faceComparisonSet = FALSE
  /\ livenessStatus = "unset"
  /\ livenessConfidence = NoScore
  /\ inspectionForLiveness = "unset"
  /\ outcomes = << >>
  /\ lastErr = NoErr
  /\ calls = [o \in CountedOps |-> 0]
  /\ lastCall = "none"
  /\ remoteStatus = "none"
  /\ dbStatus = "none"
  /\ disclosedInspection = "unset"

Init ==
  /\ RunInit
  /\ retry = RetryIdle
  /\ norm = NormIdle
  /\ doc = DocIdle
  /\ audit = AuditIdle
  /\ pair = PairIdle
  /\ mask = MaskIdle

\* ------------------------------------------------------------- outcomes
\* Mutant: the result is serialized as it was when it was created.
serializeStale(result) == [calls |-> 1, value |-> "pending"]

\* serializeResult: total; undefined for an undefined result, else the result
\* with its dates as strings.  calls counts the invocation.
serializeResult(result) == [calls |-> 1, value |-> result]

\* A return that does not serialize the result.
NotSerialized == [calls |-> 0, value |-> "none"]

Outcome(kind, reason, results, http, err) ==
  [kind |-> kind, reason |-> reason, results |-> results.value, http |-> http,
   error |-> err, serialized |-> results.calls]

\* The error as the orchestrator sees it.  The controller's provider client
\* re-throws every failure as a fresh Error, which carries no HTTP status.
seenError(i, op, status) ==
  [op |-> op, status |-> IF i = "controller" THEN NoStatus ELSE status,
   thrown |-> status]

\* error.message, which the controller uses as the decline tag of an abort.
ErrMessage(e) == "Failed: " \o e.op

\* A best-effort write of the audit row's status: it needs the row to exist
\* and may fail silently.
DbWrite(new) ==
  dbStatus' \in (IF dbStatus = "none" THEN {dbStatus} ELSE {dbStatus, new})

\* Mutant: the catch block re-throws to the caller.
AbortPropagates(op, status) ==
  /\ pc' = "threw"
  /\ lastErr' = seenError(impl, op, status)
  /\ UNCHANGED << overallStatus, outcomes, dbStatus >>

\* The catch blocks that end a run after an exception.
Abort(op, status) ==
  LET e == seenError(impl, op, status) IN
  /\ pc' = "done"
  /\ lastErr' = e
  /\ IF impl = "workflow"
       THEN /\ UNCHANGED << overallStatus, dbStatus >>
            /\ outcomes' = Append(outcomes,
                 Outcome("decline", "verification_failed", NotSerialized, 0, e))
     ELSE IF impl = "legacy"
       THEN /\ overallStatus' =
                 IF overallStatus = "none" THEN "none" ELSE "failed"
            /\ UNCHANGED dbStatus
            /\ outcomes' = Append(outcomes,
                 Outcome("decline", "verification_failed",
                         serializeResult(overallStatus'), 0, e))
     ELSE   /\ overallStatus' =
                 IF overallStatus = "none" THEN "none" ELSE "failed"
            /\ IF customerId THEN DbWrite("FAILED") ELSE UNCHANGED dbStatus
            /\ outcomes' = Append(outcomes,
                 Outcome("decline", ErrMessage(e), NotSerialized, 500, e))

\* Bookkeeping of an issued provider call.
Issue(op) ==
  /\ lastCall' = op
  /\ calls' = IF op \in CountedOps THEN [calls EXCEPT ![op] = @ + 1] ELSE calls

runData == << frontMissing, selfieMissing, frontImg, backImg, selfieImg, supp,
              customerId, inspection, faceSource, faceMatchScores,
              faceMatchScore, comparisonStrategy, faceComparisonSet,
              livenessVars, remoteStatus >>

\* --------------------------------------------------- validation, normalize
\* The presence check at the head of the run.
MissingInput(i, docs, image) ==
  IF i = "controller"
    THEN ~Truthy(At(toStringArray(docs), 1)) \/ ~Truthy(image)
    ELSE At(toArray(docs), 1) = "absent" \/ IsBlank(image)

\* Frames of the workflows that survive normalization.
resolvedFrames(i, selfies) ==
  SelectSeq(toArray(selfies), LAMBDA t : resolveImageSource(i, t) = "ok")

Start ==
  /\ pc = "start"
  /\ \E docs \in DocInputs, image \in ImageOrAbsent, selfies \in SelfieInputs :
       /\ frontMissing' = IsBlank(At(docs, 1))
       /\ selfieMissing' = IsBlank(image)
       /\ IF MissingInput(impl, docs, image)
            THEN /\ pc' = "done"
                 /\ outcomes' = Append(outcomes,
                      IF impl = "controller"
                        THEN Outcome("validation", "Validation failed", NotSerialized, 400, NoErr)
                        ELSE Outcome("decline", "missing_input", NotSerialized, 0, NoErr))
                 /\ UNCHANGED << frontImg, backImg, selfieImg, supp, lastErr,
                                 overallStatus, dbStatus >>
          ELSE IF impl = "controller"
            THEN /\ frontImg' = At(docs, 1)
                 /\ backImg' = At(docs, 2)
                 /\ selfieImg' = image
                 /\ supp' = toStringArray(selfies)
                 /\ pc' = "createCustomer"
                 /\ UNCHANGED << outcomes, lastErr, overallStatus, dbStatus >>
          ELSE LET d == toArray(docs) IN
               IF \/ resolveImageSource(impl, d[1]) = "throw"
                  \/ (Len(d) >= 2 /\ resolveImageSource(impl, d[2]) = "throw")
                  \/ resolveImageSource(impl, image) = "throw"
                 THEN /\ Abort("normalize", NoStatus)
                      /\ UNCHANGED << frontImg, backImg, selfieImg, supp >>
                 ELSE /\ frontImg' = "ok"
                      /\ backImg' = IF Len(d) >= 2 THEN "ok" ELSE "none"
                      /\ selfieImg' = "ok"
                      /\ supp' = resolvedFrames(impl, selfies)
                      /\ pc' = "createCustomer"
                      /\ UNCHANGED << outcomes, lastErr, overallStatus, dbStatus >>
  /\ UNCHANGED << retry, norm, doc, audit, pair, mask, disclosedInspection, impl, customerId, attempt, inspection, faceSource,
                  faceMatchScores, faceMatchScore, comparisonStrategy,
                  faceComparisonSet, livenessVars, calls, lastCall,
                  remoteStatus >>

\* ------------------------------------------------------ identity creation
\* Mutant: POST /customers wrapped by withRetry.
createCustomerRetried(r) ==
  /\ pc = "createCustomer"
  /\ Issue("createCustomer")
  /\ IF r = HttpOk
       THEN /\ customerId' = TRUE
            /\ pc' = "storeInProgress"
            /\ attempt' = 0
            /\ UNCHANGED << overallStatus, outcomes, lastErr, dbStatus >>
     ELSE IF retryAgain(impl, r, attempt + 1)
       THEN /\ attempt' = attempt + 1
            /\ UNCHANGED << pc, customerId, overallStatus, outcomes, lastErr,
                            dbStatus >>
     ELSE   /\ Abort("createCustomer", r)
            /\ attempt' = 0
            /\ UNCHANGED customerId

createCustomer(r) ==
  /\ pc = "createCustomer"
  /\ Issue("createCustomer")
  /\ attempt' = attempt
  /\ IF r = HttpOk
       THEN /\ customerId' = TRUE
            /\ pc' = "storeInProgress"
            /\ UNCHANGED << overallStatus, outcomes, lastErr, dbStatus >>
       ELSE /\ Abort("createCustomer", r)
            /\ UNCHANGED customerId

CreateCustomer ==
  /\ \E r \in Resp : createCustomer(r)
  /\ UNCHANGED << retry, norm, doc, audit, pair, mask, disclosedInspection, impl, frontMissing, selfieMissing, frontImg, backImg,
                  selfieImg, supp, inspection, faceSource,
                  faceMatchScores, faceMatchScore, comparisonStrategy,
                  faceComparisonSet, livenessVars, remoteStatus >>

\* storeCustomer(IN_PROGRESS); the workflows then create the result object.
StoreInProgress ==
  /\ pc = "storeInProgress"
  /\ Issue("storeCustomer")
  /\ \E r \in Resp :
       IF r = HttpOk
         THEN /\ remoteStatus' = "IN_PROGRESS"
              /\ IF impl = "controller"
                   THEN pc' = "initRecord" /\ UNCHANGED overallStatus
                   ELSE pc' = "createDocument" /\ overallStatus' = "pending"
              /\ UNCHANGED << outcomes, lastErr, dbStatus >>
         ELSE /\ Abort("storeCustomer", r)
              /\ UNCHANGED remoteStatus
  /\ UNCHANGED << retry, norm, doc, audit, pair, mask, disclosedInspection, impl, frontMissing, selfieMissing, frontImg, backImg,
                  selfieImg, supp, customerId, attempt, inspection,
                  faceSource, faceMatchScores, faceMatchScore,
                  comparisonStrategy, faceComparisonSet, livenessVars >>

\* initializeOnboardingRecord, then the controller's result object.
InitRecord ==
  /\ pc = "initRecord"
  /\ \E ok \in BOOLEAN :
       IF ok
         THEN /\ dbStatus' = "IN_PROGRESS"
              /\ overallStatus' = "pending"
              /\ pc' = "resolveDocs"
              /\ UNCHANGED << outcomes, lastErr >>
         ELSE Abort("initializeOnboardingRecord", NoStatus)
  /\ UNCHANGED << retry, norm, doc, audit, pair, mask, disclosedInspection, impl, runData, attempt, calls, lastCall >>

\* The controller resolves the document images inside its inner try.
ResolveDocs ==
  /\ pc = "resolveDocs"
  /\ LET f == resolveImageSource(impl, frontImg)
         b == resolveImageSource(impl, backImg) IN
     IF f # "ok" \/ b = "throw"
       THEN /\ Abort("resolveImageSource", NoStatus)
            /\ UNCHANGED << frontImg, backImg >>
       ELSE /\ frontImg' = "ok"
            /\ backImg' = IF b = "ok" THEN "ok" ELSE "none"
            /\ pc' = "createDocument"
            /\ UNCHANGED << overallStatus, outcomes, lastErr, dbStatus >>
  /\ UNCHANGED << retry, norm, doc, audit, pair, mask, disclosedInspection, impl, frontMissing, selfieMissing, selfieImg, supp, customerId, attempt, inspection, faceSource, faceMatchScores,
                  faceMatchScore, comparisonStrategy, faceComparisonSet,
                  livenessVars, calls, lastCall, remoteStatus >>

\* ----------------------------------------------------- document verification
\* One attempt of an operation run by withRetry: success moves on; a failure
\* is retried while the predicate allows and attempt <= retries, else thrown.
withRetryStep(op, r, next) ==
  /\ Issue(op)
  /\ IF r = HttpOk
       THEN /\ pc' = next
            /\ attempt' = 0
            /\ UNCHANGED << overallStatus, outcomes, lastErr, dbStatus >>
     ELSE IF retryAgain(impl, r, attempt + 1)
       THEN /\ attempt' = attempt + 1
            /\ UNCHANGED << pc, overallStatus, outcomes, lastErr, dbStatus >>
     ELSE   /\ Abort(op, r)
            /\ attempt' = 0

\* A provider call made without withRetry.
simpleCall(op, r, next) ==
  /\ Issue(op)
  /\ attempt' = attempt
  /\ IF r = HttpOk
       THEN /\ pc' = next
            /\ UNCHANGED << overallStatus, outcomes, lastErr, dbStatus >>
       ELSE Abort(op, r)

CreateDocument ==
  /\ pc = "createDocument"
  /\ \E r \in Resp : withRetryStep("createDocument", r, "frontPage")
  /\ UNCHANGED << retry, norm, doc, audit, pair, mask, disclosedInspection, impl, runData >>

FrontPage ==
  /\ pc = "frontPage"
  /\ \E r \in Resp :
       withRetryStep("documentPage", r,
                     IF backImg = "ok" THEN "backPage" ELSE "inspectDocument")
  /\ UNCHANGED << retry, norm, doc, audit, pair, mask, disclosedInspection, impl, runData >>

BackPage ==
  /\ pc = "backPage"
  /\ \E r \in Resp : withRetryStep("documentPage", r, "inspectDocument")
  /\ UNCHANGED << retry, norm, doc, audit, pair, mask, disclosedInspection, impl, runData >>

InspectDocument ==
  /\ pc = "inspectDocument"
  /\ \E r \in Resp : withRetryStep("inspectDocument", r, "disclose")
  /\ UNCHANGED << retry, norm, doc, audit, pair, mask, disclosedInspection, impl, runData >>

\* Mutant: the document inspection is requested again after the disclosure.
afterDocumentAgain == "inspectDocument"

afterDocument == IF impl = "controller" THEN "resolveSelfie" ELSE "uploadSelfie"

\* Mutant: the error of the disclosure call is thrown to the run.
discloseThrows(r) ==
  /\ Abort("discloseInspection", r)
  /\ UNCHANGED disclosedInspection

\* catch (discloseError): the error is logged and verifyDocument goes on
\* with disclosedInspection undefined.
discloseCaught(r) ==
  /\ pc' = afterDocument
  /\ disclosedInspection' = "absent"
  /\ UNCHANGED << overallStatus, outcomes, lastErr, dbStatus >>

\* The disclosure is best-effort: an error that withRetry throws is caught.
Disclose ==
  /\ pc = "disclose"
  /\ Issue("discloseInspection")
  /\ \E r \in Resp :
       IF r = HttpOk
         THEN /\ pc' = afterDocument
              /\ attempt' = 0
              /\ disclosedInspection' = "present"
              /\ UNCHANGED << overallStatus, outcomes, lastErr, dbStatus >>
       ELSE IF retryAgain(impl, r, attempt + 1)
         THEN /\ pc' = pc
              /\ attempt' = attempt + 1
              /\ UNCHANGED << disclosedInspection, overallStatus, outcomes,
                              lastErr, dbStatus >>
       ELSE   /\ attempt' = 0
              /\ discloseCaught(r)
  /\ UNCHANGED << retry, norm, doc, audit, pair, mask, impl, runData >>

\* The controller resolves the primary selfie after the document steps.
ResolveSelfie ==
  /\ pc = "resolveSelfie"
  /\ IF resolveImageSource(impl, selfieImg) = "ok"
       THEN /\ selfieImg' = "ok"
            /\ pc' = "uploadSelfie"
            /\ UNCHANGED << overallStatus, outcomes, lastErr, dbStatus >>
       ELSE /\ Abort("resolveImageSource", NoStatus)
            /\ UNCHANGED selfieImg
  /\ UNCHANGED << retry, norm, doc, audit, pair, mask, disclosedInspection, impl, frontMissing, selfieMissing, frontImg, backImg, supp,
                  customerId, attempt, inspection, faceSource,
                  faceMatchScores, faceMatchScore, comparisonStrategy,
                  faceComparisonSet, livenessVars, calls, lastCall,
                  remoteStatus >>

UploadSelfie ==
  /\ pc = "uploadSelfie"
  /\ \E r \in Resp : simpleCall("uploadSelfie", r, "detectFace")
  /\ UNCHANGED << retry, norm, doc, audit, pair, mask, disclosedInspection, impl, runData >>

DetectFace ==
  /\ pc = "detectFace"
  /\ \E r \in Resp : simpleCall("detectFace", r, "checkFaceMask")
  /\ UNCHANGED << retry, norm, doc, audit, pair, mask, disclosedInspection, impl, runData >>

CheckFaceMask ==
  /\ pc = "checkFaceMask"
  /\ \E r \in Resp : simpleCall("checkFaceMask", r, "inspectCustomer")
  /\ UNCHANGED << retry, norm, doc, audit, pair, mask, disclosedInspection, impl, runData >>

\* ------------------------------------------------------ face-match resolution
\* The selfieInspection block of an inspection: missing, present without a
\* hasMask flag, or present with hasMask true or false.
SelfieBlocks == {"noblock", "noflag", "mask", "nomask"}

\* Bodies that POST /customers/{id}/inspect may answer: an empty body, or an
\* inspection whose documentPortraitComparison.score may be missing (NoScore).
InspectionBodies ==
  {[kind |-> "nothing", score |-> NoScore, selfie |-> "noblock"]} \cup
  {[kind |-> "body", score |-> sc, selfie |-> m] :
      sc \in ScoreSet \cup {NoScore}, m \in SelfieBlocks}

FailedInspection == [kind |-> "failed", score |-> NoScore, selfie |-> "noblock"]

\* inspection?.documentPortraitComparison?.score
inspectionScore(insp) == IF insp.kind = "body" THEN insp.score ELSE NoScore

\* Mutant: no inspection score counts as a number.
isNumberNever(x) == FALSE

\* typeof x === 'number'
isNumber(x) == x # NoScore

\* Mutant: a failed inspection call aborts the run.
inspectionCatchRethrows(r) == r # HttpOk

\* Whether a failed step-7 inspection call aborts the run: only the legacy
\* workflow awaits it without a catch.
inspectionAborts(r) == r # HttpOk /\ impl = "legacy"

manualStart == IF impl = "workflow" THEN "getPortrait" ELSE "detectDocFace"

InspectCustomer ==
  /\ pc = "inspectCustomer"
  /\ Issue("inspectCustomer")
  /\ \E r \in Resp :
       IF inspectionAborts(r)
         THEN /\ Abort("inspectCustomer", r)
              /\ UNCHANGED << inspection, faceMatchScore, faceMatchScores,
                              comparisonStrategy, faceComparisonSet, faceSource >>
         ELSE \E b \in (IF r = HttpOk THEN InspectionBodies ELSE {FailedInspection}) :
              /\ inspection' = b
              /\ UNCHANGED << overallStatus, outcomes, lastErr, dbStatus >>
              /\ IF impl = "legacy"
                   THEN \* inspection?.faceMatch?.score ?? 0
                        /\ faceMatchScore' =
                             IF isNumber(inspectionScore(b))
                               THEN inspectionScore(b) ELSE 0
                        /\ faceComparisonSet' = TRUE
                        /\ pc' = "ensureLiveness"
                        /\ UNCHANGED << faceMatchScores, comparisonStrategy,
                                        faceSource >>
                 ELSE IF isNumber(inspectionScore(b))
                   THEN /\ faceMatchScore' = inspectionScore(b)
                        /\ faceMatchScores' = Append(faceMatchScores, inspectionScore(b))
                        /\ faceComparisonSet' = TRUE
                        /\ pc' = "liveness"
                        /\ UNCHANGED << comparisonStrategy, faceSource >>
                 ELSE   /\ comparisonStrategy' = "manual"
                        /\ faceSource' = IF impl = "controller" THEN "front" ELSE faceSource
                        /\ pc' = manualStart
                        /\ UNCHANGED << faceMatchScore, faceMatchScores,
                                        faceComparisonSet >>
  /\ UNCHANGED << retry, norm, doc, audit, pair, mask, disclosedInspection, impl, frontMissing, selfieMissing, frontImg, backImg,
                  selfieImg, supp, customerId, attempt,
                  livenessVars, remoteStatus >>

\* The workflow asks for the document portrait and falls back to the front
\* page when the call fails or answers no image data.
GetPortrait ==
  /\ pc = "getPortrait"
  /\ Issue("getDocumentPortrait")
  /\ \E r \in Resp, hasData \in BOOLEAN :
       faceSource' = IF r = HttpOk /\ hasData THEN "portrait" ELSE "front"
  /\ pc' = "detectDocFace"
  /\ UNCHANGED << retry, norm, doc, audit, pair, mask, disclosedInspection, impl, frontMissing, selfieMissing, frontImg, backImg,
                  selfieImg, supp, customerId, overallStatus, attempt,
                  inspection, faceMatchScores, faceMatchScore,
                  comparisonStrategy, faceComparisonSet, livenessVars,
                  outcomes, lastErr, remoteStatus, dbStatus >>

\* Face detection on the document image; the controller insists on an id.
DetectDocFace ==
  /\ pc = "detectDocFace"
  /\ Issue("detectDocFace")
  /\ attempt' = attempt
  /\ \E r \in Resp, hasId \in BOOLEAN :
       IF r # HttpOk THEN Abort("detectFace", r)
       ELSE IF impl = "controller" /\ ~hasId THEN Abort("detectFace", NoStatus)
       ELSE /\ pc' = "getFaceTemplate"
            /\ UNCHANGED << overallStatus, outcomes, lastErr, dbStatus >>
  /\ UNCHANGED << retry, norm, doc, audit, pair, mask, disclosedInspection, impl, runData >>

GetFaceTemplate ==
  /\ pc = "getFaceTemplate"
  /\ Issue("getFaceTemplate")
  /\ attempt' = attempt
  /\ \E r \in Resp, hasData \in BOOLEAN :
       IF r # HttpOk THEN Abort("getFaceTemplate", r)
       ELSE IF ~hasData THEN Abort("getFaceTemplate", NoStatus)
       ELSE /\ pc' = "comparePrimary"
            /\ UNCHANGED << overallStatus, outcomes, lastErr, dbStatus >>
  /\ UNCHANGED << retry, norm, doc, audit, pair, mask, disclosedInspection, impl, runData >>

ComparePrimary ==
  /\ pc = "comparePrimary"
  /\ Issue("compareFaces")
  /\ \E r \in Resp :
       IF r # HttpOk
         THEN /\ Abort("compareFaces", r)
              /\ UNCHANGED faceMatchScores
         ELSE \E sc \in ScoreSet :
              /\ faceMatchScores' = Append(faceMatchScores, sc)
              /\ pc' = "suppNext"
              /\ UNCHANGED << overallStatus, outcomes, lastErr, dbStatus >>
  /\ UNCHANGED << retry, norm, doc, audit, pair, mask, disclosedInspection, impl, frontMissing, selfieMissing, frontImg, backImg,
                  selfieImg, supp, customerId, attempt, inspection, faceSource,
                  faceMatchScore, comparisonStrategy, faceComparisonSet,
                  livenessVars, remoteStatus >>

\* Mutant: the last score wins.
aggregateLast(scores) == scores[Len(scores)]

\* Math.max(...faceMatchScores)
aggregate(scores) == MaxOf(scores)

\* Head of the loop over the supplemental frames (supp holds the frames the
\* loop has not visited yet), and its exit.
SuppNext ==
  /\ pc = "suppNext"
  /\ IF Len(supp) = 0
       THEN IF Len(faceMatchScores) = 0
              THEN /\ Abort("manualComparison", NoStatus)
                   /\ UNCHANGED << faceMatchScore, faceComparisonSet, supp >>
              ELSE /\ faceMatchScore' = aggregate(faceMatchScores)
                   /\ faceComparisonSet' = TRUE
                   /\ pc' = "liveness"
                   /\ UNCHANGED << supp, overallStatus, outcomes, lastErr,
                                   dbStatus >>
     ELSE IF impl = "workflow" \/ resolveImageSource(impl, Head(supp)) = "ok"
       THEN /\ pc' = "detectSupp"
            /\ UNCHANGED << faceMatchScore, faceComparisonSet, supp,
                            overallStatus, outcomes, lastErr, dbStatus >>
     ELSE IF resolveImageSource(impl, Head(supp)) = "null"
       THEN /\ supp' = Tail(supp)
            /\ UNCHANGED << pc, faceMatchScore, faceComparisonSet,
                            overallStatus, outcomes, lastErr, dbStatus >>
     ELSE   /\ Abort("resolveImageSource", NoStatus)
            /\ UNCHANGED << faceMatchScore, faceComparisonSet, supp >>
  /\ UNCHANGED << retry, norm, doc, audit, pair, mask, disclosedInspection, impl, frontMissing, selfieMissing, frontImg, backImg,
                  selfieImg, customerId, attempt, inspection, faceSource,
                  faceMatchScores, comparisonStrategy, livenessVars, calls,
                  lastCall, remoteStatus >>

\* A failure on a supplemental frame: the workflow skips the frame, the
\* controller has no catch around the loop body.
suppFailure(op, r) ==
  IF impl = "workflow"
    THEN /\ supp' = Tail(supp)
         /\ pc' = "suppNext"
         /\ UNCHANGED << overallStatus, outcomes, lastErr, dbStatus >>
    ELSE /\ Abort(op, r)
         /\ UNCHANGED supp

DetectSupp ==
  /\ pc = "detectSupp"
  /\ Issue("detectSuppFace")
  /\ \E r \in Resp :
       IF r # HttpOk THEN suppFailure("detectFace", r)
       ELSE /\ pc' = "compareSupp"
            /\ UNCHANGED << supp, overallStatus, outcomes, lastErr, dbStatus >>
  /\ UNCHANGED << retry, norm, doc, audit, pair, mask, disclosedInspection, impl, frontMissing, selfieMissing, frontImg, backImg,
                  selfieImg, customerId, attempt, inspection, faceSource,
                  faceMatchScores, faceMatchScore, comparisonStrategy,
                  faceComparisonSet, livenessVars, remoteStatus >>

CompareSupp ==
  /\ pc = "compareSupp"
  /\ Issue("compareFaces")
  /\ \E r \in Resp :
       IF r # HttpOk
         THEN /\ suppFailure("compareFaces", r)
              /\ UNCHANGED faceMatchScores
         ELSE \E sc \in ScoreSet :
              /\ faceMatchScores' = Append(faceMatchScores, sc)
              /\ supp' = Tail(supp)
              /\ pc' = "suppNext"
              /\ UNCHANGED << overallStatus, outcomes, lastErr, dbStatus >>
  /\ UNCHANGED << retry, norm, doc, audit, pair, mask, disclosedInspection, impl, frontMissing, selfieMissing, frontImg, backImg,
                  selfieImg, customerId, attempt, inspection, faceSource,
                  faceMatchScore, comparisonStrategy, faceComparisonSet,
                  livenessVars, remoteStatus >>

\* --------------------------------------------------------- liveness resolution
\* inspectionForLiveness?.selfieInspection?.hasMask ?? false
hasMaskOf(selfie) == selfie = "mask"

\* Mutant: a selfie block without a mask flag counts as masked.
livenessOfStrict(selfie) == IF selfie = "nomask" THEN "live" ELSE "not_live"

\* hasMask ? 'not_live' : 'live'
livenessOf(selfie) == IF hasMaskOf(selfie) THEN "not_live" ELSE "live"

LIVE_CONFIDENCE == 85

\* hasMask ? 0 : 0.85
confidenceOf(selfie) == IF hasMaskOf(selfie) THEN 0 ELSE LIVE_CONFIDENCE

\* The liveness result computed from an inspection's selfie block.
setLiveness(selfie) ==
  /\ inspectionForLiveness' = selfie
  /\ livenessStatus' = livenessOf(selfie)
  /\ livenessConfidence' = confidenceOf(selfie)

\* inspection ?? (await inspectCustomer(customerId)): the step-7 result is
\* reused unless the call failed or answered nothing.
\* Mutant: the inspection is always fetched again.
reuseNever(insp) == FALSE

\* inspection ?? ...: the left operand is used unless it is undefined.
reuseInspection(insp) == insp.kind = "body"

Liveness ==
  /\ pc = "liveness"
  /\ IF reuseInspection(inspection)
       THEN /\ setLiveness(inspection.selfie)
            /\ pc' = "decide"
       ELSE /\ pc' = "inspectLiveness"
            /\ UNCHANGED livenessVars
  /\ UNCHANGED << retry, norm, doc, audit, pair, mask, disclosedInspection, impl, frontMissing, selfieMissing, frontImg, backImg,
                  selfieImg, supp, customerId, overallStatus, attempt,
                  inspection, faceSource, faceMatchScores, faceMatchScore,
                  comparisonStrategy, faceComparisonSet, outcomes, lastErr,
                  calls, lastCall, remoteStatus, dbStatus >>

InspectLiveness ==
  /\ pc = "inspectLiveness"
  /\ Issue("inspectCustomer")
  /\ \E r \in Resp :
       IF r # HttpOk
         THEN /\ Abort("inspectCustomer", r)
              /\ UNCHANGED livenessVars
         ELSE \E b \in InspectionBodies :
              /\ setLiveness(b.selfie)
              /\ pc' = "decide"
              /\ UNCHANGED << overallStatus, outcomes, lastErr, dbStatus >>
  /\ UNCHANGED << retry, norm, doc, audit, pair, mask, disclosedInspection, impl, frontMissing, selfieMissing, frontImg, backImg,
                  selfieImg, supp, customerId, attempt, inspection,
                  faceSource, faceMatchScores, faceMatchScore,
                  comparisonStrategy, faceComparisonSet, remoteStatus >>

\* ------------------------------------------------------------ decision policy
faceMatchPassed(i, scores, score) ==
  /\ (IF i = "workflow" THEN Len(scores) > 0 ELSE isNumber(score))
  /\ score >= FACE_MATCH_SUCCESS_THRESHOLD

\* Mutant: the liveness gate lets every status through.
livenessPassedAlways(status) == TRUE

\* livenessResult.status === LIVENESS_SUCCESS_STATUS
livenessPassed(status) == status = LIVENESS_SUCCESS_STATUS

\* Mutant: a failed run always names both gates.
declineReasonsBoth(fp, lp) == << "face_match_failed", "liveness_failed" >>

declineReasons(fp, lp) ==
  (IF ~fp THEN << "face_match_failed" >> ELSE << >>) \o
  (IF ~lp THEN << "liveness_failed" >> ELSE << >>)

\* declineReasons.join('|') || 'kyc_failed'
declineReasonTag(reasons) ==
  IF Join(reasons, "|") = "" THEN "kyc_failed" ELSE Join(reasons, "|")

Decide ==
  /\ pc = "decide"
  /\ LET fp == faceMatchPassed(impl, faceMatchScores, faceMatchScore)
         lp == livenessPassed(livenessStatus)
         tag == declineReasonTag(declineReasons(fp, lp)) IN
     IF ~fp \/ ~lp
       THEN /\ overallStatus' = "failed"
            /\ pc' = "done"
            /\ IF impl = "workflow"
                 THEN /\ outcomes' = Append(outcomes,
                           Outcome("decline", tag, serializeResult("failed"), 0, NoErr))
                      /\ UNCHANGED dbStatus
                 ELSE /\ outcomes' = Append(outcomes,
                           Outcome("decline", tag, NotSerialized, 422, NoErr))
                      /\ DbWrite("FAILED")
       ELSE /\ overallStatus' = "completed"
            /\ pc' = "storeFinished"
            /\ UNCHANGED outcomes
            /\ IF impl = "controller" THEN DbWrite("FINISHED")
                                      ELSE UNCHANGED dbStatus
  /\ UNCHANGED << retry, norm, doc, audit, pair, mask, disclosedInspection, impl, runData, attempt, lastErr, calls, lastCall >>

\* storeCustomer(FINISHED) and the success outcome.
StoreFinished ==
  /\ pc = "storeFinished"
  /\ Issue("storeCustomer")
  /\ \E r \in Resp :
       IF r = HttpOk
         THEN /\ remoteStatus' = "FINISHED"
              /\ pc' = "done"
              /\ outcomes' = Append(outcomes,
                   IF impl = "controller"
                     THEN Outcome("success", "", NotSerialized, 200, NoErr)
                     ELSE Outcome("success", "", serializeResult(overallStatus), 0, NoErr))
              /\ UNCHANGED << overallStatus, lastErr, dbStatus >>
         ELSE /\ Abort("storeCustomer", r)
              /\ UNCHANGED remoteStatus
  /\ UNCHANGED << retry, norm, doc, audit, pair, mask, disclosedInspection, impl, frontMissing, selfieMissing, frontImg, backImg,
                  selfieImg, supp, customerId, attempt, inspection,
                  faceSource, faceMatchScores, faceMatchScore,
                  comparisonStrategy, faceComparisonSet, livenessVars >>

\* ------------------------------------------- legacy: evaluatePassiveLiveness
EnsureLiveness ==
  /\ pc = "ensureLiveness"
  /\ \E r \in Resp :
       simpleCall("ensureLivenessRecord", r,
                  IF Len(supp) > 0 THEN "uploadAdditionalSelfie" ELSE "evaluateLiveness")
  /\ UNCHANGED << retry, norm, doc, audit, pair, mask, disclosedInspection, impl, runData >>

UploadAdditionalSelfie ==
  /\ pc = "uploadAdditionalSelfie"
  /\ \E r \in Resp :
       /\ simpleCall("uploadAdditionalSelfie", r,
                     IF Len(supp) > 1 THEN "uploadAdditionalSelfie"
                                      ELSE "evaluateLiveness")
       /\ supp' = IF r = HttpOk THEN Tail(supp) ELSE supp
  /\ UNCHANGED << retry, norm, doc, audit, pair, mask, disclosedInspection, impl, frontMissing, selfieMissing, frontImg, backImg,
                  selfieImg, customerId, inspection, faceSource,
                  faceMatchScores, faceMatchScore, comparisonStrategy,
                  faceComparisonSet, livenessVars, remoteStatus >>

\* baseResult.status ?? 'not_live'
EvaluateLiveness ==
  /\ pc = "evaluateLiveness"
  /\ Issue("evaluateLiveness")
  /\ attempt' = attempt
  /\ \E r \in Resp :
       IF r # HttpOk
         THEN /\ Abort("evaluateLiveness", r)
              /\ UNCHANGED livenessVars
         ELSE /\ livenessStatus' \in {"live", "not_live", "suspicious"}
              /\ livenessConfidence' \in {0, LIVE_CONFIDENCE}
              /\ UNCHANGED inspectionForLiveness
              /\ pc' = "deepfake"
              /\ UNCHANGED << overallStatus, outcomes, lastErr, dbStatus >>
  /\ UNCHANGED << retry, norm, doc, audit, pair, mask, disclosedInspection, impl, frontMissing, selfieMissing, frontImg, backImg,
                  selfieImg, supp, customerId, inspection, faceSource,
                  faceMatchScores, faceMatchScore, comparisonStrategy,
                  faceComparisonSet, remoteStatus >>

\* The extended evaluation is best-effort; the run is then marked completed.
Deepfake ==
  /\ pc = "deepfake"
  /\ Issue("evaluateDeepfake")
  /\ \E r \in Resp : TRUE
  /\ overallStatus' = "completed"
  /\ pc' = "storeFinished"
  /\ UNCHANGED << retry, norm, doc, audit, pair, mask, disclosedInspection, impl, runData, attempt, outcomes, lastErr, dbStatus >>

\* ------------------------------------------------------------ specification
Next ==
  \/ Start
  \/ CreateCustomer
  \/ StoreInProgress
  \/ InitRecord
  \/ ResolveDocs
  \/ CreateDocument
  \/ FrontPage
  \/ BackPage
  \/ InspectDocument
  \/ Disclose
  \/ ResolveSelfie
  \/ UploadSelfie
  \/ DetectFace
  \/ CheckFaceMask
  \/ InspectCustomer
  \/ GetPortrait
  \/ DetectDocFace
  \/ GetFaceTemplate
  \/ ComparePrimary
  \/ SuppNext
  \/ DetectSupp
  \/ CompareSupp
  \/ Liveness
  \/ InspectLiveness
  \/ Decide
  \/ StoreFinished
  \/ EnsureLiveness
  \/ UploadAdditionalSelfie
  \/ EvaluateLiveness
  \/ Deepfake

Spec == Init /\ [][Next]_vars

\* Every awaited call returns or times out, so the run always takes its
\* next step.
FairSpec == Spec /\ WF_vars(Next)

\* ------------------------------------------------------------------ withRetry
\* withRetry on its own: one invocation with a policy, an operation that
\* answers any HTTP result, and a record of what the wrapper did.
DelayMs == 500
MaxDelayMs == 4000
BackoffFactor == 2

\* defaultOptions
DefaultPolicy ==
  [retries |-> Retries, delayMs |-> DelayMs, maxDelayMs |-> MaxDelayMs,
   backoffFactor |-> BackoffFactor]

\* Options a caller may pass; the repository's callers keep the defaults.
Policies ==
  {DefaultPolicy} \cup
  {[retries |-> n, delayMs |-> d, maxDelayMs |-> m, backoffFactor |-> BackoffFactor] :
     n \in {1, Retries}, d \in {DelayMs, 5000}, m \in {1500, MaxDelayMs}}

\* The shouldRetry option: absent ("none"), or the isRetryableError of the
\* workflow or of the controller's provider client.
Predicates == {"none", "workflow", "controller"}

Min(a, b) == IF a <= b THEN a ELSE b

\* options.shouldRetry?.(error, attempt) ?? attempt <= retries
shouldRetry(pred, status, att, retries) ==
  IF pred = "none" THEN att <= retries ELSE isRetryableError(pred, status, att)

\* Mutant: one more attempt is allowed before the limit applies.
exhaustedLate(att, retries) == att > retries + 1

\* attempt > retries
exhausted(att, retries) == att > retries

\* Mutant: the delay never grows.
nextDelayFixed(cur, factor, max) == cur

\* Math.min(currentDelay * backoffFactor, maxDelayMs)
nextDelay(cur, factor, max) == Min(cur * factor, max)

RetryInit ==
  /\ RunInit
  /\ impl = "workflow"
  /\ norm = NormIdle
  /\ doc = DocIdle
  /\ audit = AuditIdle
  /\ pair = PairIdle
  /\ mask = MaskIdle
  /\ \E pol \in Policies, pred \in Predicates :
       retry = [pc |-> "call", policy |-> pol, pred |-> pred,
                attempt |-> 0, currentDelay |-> pol.delayMs,
                invocations |-> 0, error |-> NoStatus,
                onRetry |-> << >>, sleeps |-> << >>]

\* return await operation(), and the catch block up to the throw.
RetryCall ==
  /\ retry.pc = "call"
  /\ \E r \in Resp :
       IF r = HttpOk
         THEN retry' = [retry EXCEPT !.pc = "returned",
                                     !.invocations = @ + 1]
         ELSE LET att == retry.attempt + 1 IN
              retry' = [retry EXCEPT
                !.invocations = @ + 1,
                !.attempt = att,
                !.error = r,
                !.pc = IF \/ ~shouldRetry(retry.pred, r, att, retry.policy.retries)
                          \/ exhausted(att, retry.policy.retries)
                         THEN "threw" ELSE "onRetry"]
  /\ UNCHANGED << runVars, norm, doc, audit, pair, mask >>

\* Mutant: the retry is not reported.
RetryOnRetrySilent ==
  /\ retry.pc = "onRetry"
  /\ retry' = [retry EXCEPT !.pc = "sleep"]
  /\ UNCHANGED << runVars, norm, doc, audit, pair, mask >>

\* options.onRetry?.({ attempt, error, delayMs: currentDelay })
RetryOnRetry ==
  /\ retry.pc = "onRetry"
  /\ retry' = [retry EXCEPT
       !.pc = "sleep",
       !.onRetry = Append(@, [attempt |-> retry.attempt, error |-> retry.error,
                              delayMs |-> retry.currentDelay])]
  /\ UNCHANGED << runVars, norm, doc, audit, pair, mask >>

\* await sleep(currentDelay), then the delay of the next retry.
RetrySleep ==
  /\ retry.pc = "sleep"
  /\ retry' = [retry EXCEPT
       !.pc = "call",
       !.sleeps = Append(@, retry.currentDelay),
       !.currentDelay = nextDelay(@, retry.policy.backoffFactor,
                                  retry.policy.maxDelayMs)]
  /\ UNCHANGED << runVars, norm, doc, audit, pair, mask >>

RetryNext ==
  \/ RetryCall
  \/ RetryOnRetry
  \/ RetrySleep

RetrySpec == RetryInit /\ [][RetryNext]_vars

\* ------------------------------------------------------------------- claims
Done == pc = "done"

\* The implementations that apply the decision gates.
Gated == impl \in {"workflow", "controller"}

Terminal == {"completed", "failed"}

\* C1: a run with both inputs present whose face-match score is >= 0.64
\* (0.64 included) and whose liveness status is 'live' ends with
\* overallStatus 'completed'.
C1_CompletedWhenGatesPass ==
  (/\ Done /\ Gated
   /\ ~frontMissing /\ ~selfieMissing
   /\ faceComparisonSet
   /\ faceMatchScore >= 64
   /\ livenessStatus = "live")
  => overallStatus = "completed"

\* C2: when both resolutions finished and the score is < 0.64 or the liveness
\* status is not 'live', the run ends 'failed' and its decline tag is
\* 'face_match_failed', 'liveness_failed' or 'face_match_failed|liveness_failed'
\* according to exactly the gates that failed.
C2_DeclineTagNamesFailedGates ==
  (/\ Done /\ Gated
   /\ faceComparisonSet /\ livenessStatus # "unset"
   /\ (faceMatchScore < 64 \/ livenessStatus # "live"))
  => /\ overallStatus = "failed"
     /\ Len(outcomes) = 1
     /\ outcomes[1].kind = "decline"
     /\ outcomes[1].reason =
          IF faceMatchScore < 64 /\ livenessStatus # "live"
            THEN "face_match_failed|liveness_failed"
          ELSE IF faceMatchScore < 64 THEN "face_match_failed"
          ELSE "liveness_failed"

C2_Witness ==
  /\ Done /\ Gated
  /\ faceComparisonSet
  /\ faceMatchScore = 60
  /\ livenessStatus = "not_live"
  /\ Len(outcomes) = 1
  /\ outcomes[1].reason = "face_match_failed|liveness_failed"

\* C3: when the caller's front document image or primary selfie is absent,
\* empty or whitespace-only, the workflow run ends as a decline with reason
\* 'missing_input' and no provider call is ever issued.
C3_MissingInputNoCalls ==
  (impl # "controller" /\ pc # "start" /\ (frontMissing \/ selfieMissing))
  => /\ lastCall = "none"
     /\ (Done => /\ Len(outcomes) = 1
                 /\ outcomes[1].kind = "decline"
                 /\ outcomes[1].reason = "missing_input")

\* C4: every run terminates and hands over exactly one outcome; the
\* workflows' run() hands over a success or a decline event and no
\* exception ever reaches the caller.
C4_ExactlyOneOutcome ==
  /\ [](/\ pc # "threw"
        /\ Len(outcomes) <= 1
        /\ (Done <=> Len(outcomes) = 1)
        /\ (Done /\ impl # "controller"
              => outcomes[1].kind \in {"success", "decline"}))
  /\ <>Done

C4_Witness ==
  /\ Done
  /\ impl = "workflow"
  /\ lastErr = [op |-> "createDocument", status |-> 503, thrown |-> 503]
  /\ Len(outcomes) = 1
  /\ outcomes[1].reason = "verification_failed"

\* C5: once overallStatus is 'completed' or 'failed' no later step changes it.
C5_TerminalStatusStable ==
  [][(overallStatus \in Terminal) => (overallStatus' = overallStatus)]_vars

\* C6: overallStatus passes through 'in_progress': 'pending' is never
\* followed directly by a terminal status.
C6_PendingNotFollowedByTerminal ==
  [][(overallStatus = "pending") => (overallStatus' \notin Terminal)]_vars

\* C7: POST /customers is issued at most once in a run, whatever fails.
C7_CreateIdentityAtMostOnce == calls["createCustomer"] <= 1

C7_Witness ==
  /\ Done
  /\ impl = "workflow"
  /\ calls["createCustomer"] = 1
  /\ lastErr = [op |-> "createCustomer", status |-> 503, thrown |-> 503]

\* C8: when the step-7 inspection call fails, answers nothing or answers
\* without a numeric score, the run goes on with the manual comparison and
\* hands no outcome at that point; the recorded strategy is then 'manual'.
C8_FallbackToManual ==
  /\ [][(/\ Gated
         /\ pc = "inspectCustomer"
         /\ pc' # "inspectCustomer"
         /\ ~(inspection'.kind = "body" /\ inspection'.score # NoScore))
        => /\ inspection'.kind \in {"failed", "nothing", "body"}
           /\ comparisonStrategy' = "manual"
           /\ pc' = manualStart
           /\ outcomes' = outcomes]_vars
  /\ []((/\ Gated /\ faceComparisonSet
         /\ ~(inspection.kind = "body" /\ inspection.score # NoScore))
        => comparisonStrategy = "manual")

C8_Witness ==
  /\ Done /\ Gated
  /\ inspection.kind = "failed"
  /\ faceComparisonSet
  /\ comparisonStrategy = "manual"
  /\ overallStatus = "completed"
  /\ Len(outcomes) = 1
  /\ outcomes[1].kind = "success"

ManualOps == {"getDocumentPortrait", "detectDocFace", "getFaceTemplate",
              "compareFaces", "detectSuppFace"}

\* C9: a numeric inspection score is the face-match score as it is, with
\* strategy 'inspection' and a single score, and the run issues none of the
\* manual-comparison calls.
C9_InspectionScoreUsed ==
  (Gated /\ inspection.kind = "body" /\ inspection.score # NoScore)
  => /\ faceComparisonSet
     /\ faceMatchScore = inspection.score
     /\ faceMatchScores = << inspection.score >>
     /\ comparisonStrategy = "inspection"
     /\ \A o \in ManualOps : calls[o] = 0

C9_Witness ==
  /\ Done /\ Gated
  /\ inspection.kind = "body"
  /\ inspection.score = 64
  /\ faceMatchScore = 64
  /\ overallStatus = "completed"
  /\ calls["detectDocFace"] = 0

\* C10: on the manual path the final score is the greatest of the scores
\* obtained, wherever it stands in the list: 0.5, 0.8, 0.6 give 0.8, and
\* 0.3, 0.4 give 0.4 and a decline tagged 'face_match_failed'.
C10_ManualScoreIsMax ==
  (Gated /\ comparisonStrategy = "manual" /\ faceComparisonSet)
  => /\ \E k \in 1..Len(faceMatchScores) : faceMatchScores[k] = faceMatchScore
     /\ \A k \in 1..Len(faceMatchScores) : faceMatchScores[k] <= faceMatchScore
     /\ (faceMatchScores = << 50, 80, 60 >> => faceMatchScore = 80)
     /\ (faceMatchScores = << 30, 40 >> =>
           /\ faceMatchScore = 40
           /\ (Done /\ livenessStatus = "live" =>
                 /\ Len(outcomes) = 1
                 /\ outcomes[1].kind = "decline"
                 /\ outcomes[1].reason = "face_match_failed"))

C10_Witness ==
  /\ Gated
  /\ comparisonStrategy = "manual"
  /\ faceComparisonSet
  /\ faceMatchScores = << 50, 80, 60 >>
  /\ faceMatchScore = 80

\* Statuses of errors the status-based classification does not retry.
OtherClientErrors == {st \in ErrStatus : st # NoStatus /\ st < 500 /\ st # 429}

C13_DefaultPredicateByStatus ==
  (retry.pc \in {"onRetry", "sleep", "threw"} /\ retry.pred = "none")
  => (retry.pc = "threw" <=>
        \/ retry.error \in OtherClientErrors
        \/ retry.attempt > retry.policy.retries)

\* C14 as stated: under the default policy the operation is invoked at most
\* 3 times.
C14_AtMostThreeInvocations ==
  (retry.pc # "idle" /\ retry.policy = DefaultPolicy) => retry.invocations <= 3

\* C14 amended: the operation is invoked at most retries + 1 times (4 under
\* the default policy), and a run of failures that are all retried is
\* re-thrown exactly after invocation retries + 1.
C14_AtMostRetriesPlusOne ==
  retry.pc # "idle" =>
    /\ retry.invocations <= retry.policy.retries + 1
    /\ (retry.policy = DefaultPolicy => retry.invocations <= 4)
    /\ (retry.pc = "threw" /\ retry.attempt > retry.policy.retries
          => retry.invocations = retry.policy.retries + 1)

C14_Witness ==
  /\ retry.pc = "threw"
  /\ retry.policy = DefaultPolicy
  /\ retry.invocations = 4
  /\ Len(retry.onRetry) = 3

\* The provider calls the implementations run under withRetry.
RetriedOps == {"createDocument", "documentPage", "inspectDocument"}

\* C15: when a retried call is given up after its retries are exhausted, the
\* error that reaches the orchestrator is the last error as thrown, with its
\* HTTP status.
C15_ExhaustedErrorUnchanged ==
  (Done /\ lastErr.op \in RetriedOps /\ lastErr.thrown \in {429, 503})
  => lastErr.status = lastErr.thrown

\* C16: a run in which a step after the creation of the identity throws ends
\* with overallStatus 'failed' and the reason 'verification_failed', the
\* outcome carrying the error that was thrown.
C16_ThrowAfterIdentityFails ==
  (Done /\ customerId /\ lastErr.op # "none")
  => /\ overallStatus = "failed"
     /\ outcomes # << >>
     /\ outcomes[Len(outcomes)].reason = "verification_failed"
     /\ outcomes[Len(outcomes)].error = lastErr

\* C17: a failed write of the audit record never ends a run: no run is
\* aborted by the error of initializeOnboardingRecord.
C17_AuditFailureHarmless ==
  Done => lastErr.op # "initializeOnboardingRecord"

\* The run was aborted because the front document or the primary selfie did
\* not survive normalization.
InvalidAtNormalization ==
  \/ lastErr.op = "normalize"
  \/ /\ lastErr.op = "resolveImageSource"
     /\ \/ resolveImageSource(impl, frontImg) # "ok"
        \/ resolveImageSource(impl, selfieImg) # "ok"

\* C18: a run rejected because the front document or the primary selfie is
\* empty or invalid at normalization has issued no provider call: the
\* identity was never created.
C18_InvalidImageBeforeRemoteCalls ==
  (Done /\ InvalidAtNormalization)
  => /\ lastCall = "none"
     /\ calls["createCustomer"] = 0
     /\ ~customerId

\* ------------------------------------------------- normalizeImagePayload
\* Strings are sequences of characters.  normalizeImagePayload exists twice:
\* src/src/utils/image.ts (imported by the workflows and the controller) and
\* src/src/lib/supabaseClient.ts.
MaxHeaders == 2
MaxPayload == 3

Versions == {"utils/image", "lib/supabaseClient"}

DataColon == << "d", "a", "t", "a", ":" >>
Base64Word == << "b", "a", "s", "e", "6", "4" >>

\* Prefixes an input may carry, well-formed or not.
HeaderUnits ==
  { DataColon \o << "x", ";" >> \o Base64Word \o << "," >>,
    << "D", "A", "T", "A", ":", "x", ";" >> \o Base64Word \o << "," >>,
    DataColon \o << "x", "," >>,
    DataColon \o << "x", ";" >>,
    Base64Word \o << "," >>,
    DataColon }

\* Characters of the data part: a base64 character, a blank, and a character
\* outside the base64 alphabet.
PayloadChars == {"Q", " ", "*"}

Base64Alphabet == {"d", "a", "t", "b", "s", "e", "x", "6", "4", "Q", "D", "A", "T"}

RECURSIVE Flatten(_)
Flatten(ss) == IF ss = << >> THEN << >> ELSE Head(ss) \o Flatten(Tail(ss))

IsSpace(c) == c = " "

Lower(c) ==
  IF c = "D" THEN "d" ELSE IF c = "A" THEN "a" ELSE IF c = "T" THEN "t"
  ELSE IF c = "Q" THEN "q" ELSE c

toLowerCase(s) == [k \in 1..Len(s) |-> Lower(s[k])]

RECURSIVE trimStart(_)
trimStart(s) ==
  IF s # << >> /\ IsSpace(Head(s)) THEN trimStart(Tail(s)) ELSE s

RECURSIVE trimEnd(_)
trimEnd(s) ==
  IF s # << >> /\ IsSpace(s[Len(s)])
    THEN trimEnd(SubSeq(s, 1, Len(s) - 1)) ELSE s

trim(s) == trimEnd(trimStart(s))

startsWith(s, prefix) ==
  Len(s) >= Len(prefix) /\ SubSeq(s, 1, Len(prefix)) = prefix

\* Position (from 1) of the first character of s that lies in cs; 0 if none.
indexOf(s, cs) ==
  IF \E k \in 1..Len(s) : s[k] \in cs
    THEN CHOOSE k \in 1..Len(s) :
           s[k] \in cs /\ \A j \in 1..(k - 1) : s[j] \notin cs
    ELSE 0

\* s without its first n characters.
slice(s, n) == SubSeq(s, n + 1, Len(s))

NoMatch == [matched |-> FALSE, mime |-> << >>, data |-> << >>]

\* /^data:(?<mime>[^;]+);base64,(?<data>.+)$/
DATA_URI_REGEX(s) ==
  IF ~startsWith(s, DataColon) THEN NoMatch
  ELSE LET rest == slice(s, Len(DataColon))
           semi == indexOf(rest, {";"})
           tail == slice(rest, semi)
           marker == Base64Word \o << "," >> IN
       IF semi >= 2 /\ startsWith(tail, marker) /\ Len(tail) > Len(marker)
         THEN [matched |-> TRUE, mime |-> SubSeq(rest, 1, semi - 1),
               data |-> slice(tail, Len(marker))]
         ELSE NoMatch

\* /^data:(?<mime>[^;,]+)/i : the mime type, empty when there is no match.
DATA_URI_MIME_REGEX(s) ==
  IF ~startsWith(toLowerCase(s), DataColon) THEN << >>
  ELSE LET rest == slice(s, Len(DataColon))
           stop == indexOf(rest, {";", ","}) IN
       IF stop = 0 THEN rest ELSE SubSeq(rest, 1, stop - 1)

Threw == [threw |-> TRUE, base64 |-> << >>, mimeType |-> << >>]
Returned(base64, mime) == [threw |-> FALSE, base64 |-> base64, mimeType |-> mime]

\* normalizeImagePayload of utils/image.ts.
normalizeSimple(kind, raw) ==
  IF kind # "string" \/ raw = << >> THEN Threw
  ELSE LET trimmed == trim(raw)
           match == DATA_URI_REGEX(trimmed) IN
       IF match.matched THEN Returned(match.data, match.mime)
       ELSE Returned(trimmed, << >>)

\* The loop that strips leading data URI headers.
RECURSIVE stripHeaders(_)
stripHeaders(current) ==
  IF ~startsWith(toLowerCase(current), DataColon) THEN current
  ELSE LET commaIndex == indexOf(current, {","})
           semicolonIndex == indexOf(current, {";"}) IN
       IF commaIndex = 0
         THEN IF semicolonIndex = 0
                THEN trim(slice(current, Len(DataColon)))
                ELSE stripHeaders(trim(slice(current, semicolonIndex)))
         ELSE stripHeaders(trim(slice(current, commaIndex)))

\* The loop that removes stray base64 markers: /^base64[,;]/i.
RECURSIVE stripMarkers(_)
stripMarkers(current) ==
  IF /\ Len(current) > Len(Base64Word)
     /\ startsWith(toLowerCase(current), Base64Word)
     /\ current[Len(Base64Word) + 1] \in {",", ";"}
    THEN stripMarkers(trim(slice(current, Len(Base64Word) + 1)))
    ELSE current

\* current.replace(/^(?:data:[^,;]+[;,])+?/gi, '')
stripOneHeader(current) ==
  IF ~startsWith(toLowerCase(current), DataColon) THEN current
  ELSE LET rest == slice(current, Len(DataColon))
           stop == indexOf(rest, {";", ","}) IN
       IF stop >= 2 THEN slice(rest, stop) ELSE current

\* .replace(/^[^A-Za-z0-9+/=]+/, '').replace(/\s+/g, '')
RECURSIVE dropLeadingNonBase64(_)
dropLeadingNonBase64(s) ==
  IF s # << >> /\ Head(s) \notin Base64Alphabet
    THEN dropLeadingNonBase64(Tail(s)) ELSE s

sanitize(s) == SelectSeq(dropLeadingNonBase64(s), LAMBDA c : ~IsSpace(c))

\* normalizeImagePayload of lib/supabaseClient.ts.
normalizeElaborate(kind, raw) ==
  IF kind # "string" \/ raw = << >> THEN Threw
  ELSE LET trimmed == trim(raw)
           detectedMime == DATA_URI_MIME_REGEX(trimmed)
           current == stripOneHeader(stripMarkers(stripHeaders(trimmed))) IN
       Returned(sanitize(current), detectedMime)

normalizeImagePayload(version, kind, raw) ==
  IF version = "utils/image" THEN normalizeSimple(kind, raw)
  ELSE normalizeElaborate(kind, raw)

HeaderSeqs == UNION {[1..k -> HeaderUnits] : k \in 0..MaxHeaders}
Payloads == UNION {[1..k -> PayloadChars] : k \in 0..MaxPayload}

\* The arguments a caller may pass: undefined, null, or a string made of
\* prefixes followed by a data part.
NormInputs ==
  {[kind |-> k, headers |-> << >>, payload |-> << >>, raw |-> << >>] :
      k \in {"undefined", "null"}}
  \cup {[kind |-> "string", headers |-> h, payload |-> p,
         raw |-> Flatten(h) \o p] : h \in HeaderSeqs, p \in Payloads}

NormInit ==
  /\ RunInit
  /\ impl = "workflow"
  /\ retry = RetryIdle
  /\ doc = DocIdle
  /\ audit = AuditIdle
  /\ pair = PairIdle
  /\ mask = MaskIdle
  /\ \E v \in Versions, in \in NormInputs :
       norm = [pc |-> "input", version |-> v, input |-> in,
               first |-> Threw, second |-> Threw]

\* normalizeImagePayload(raw)
Normalize ==
  /\ norm.pc = "input"
  /\ LET out == normalizeImagePayload(norm.version, norm.input.kind,
                                      norm.input.raw) IN
     norm' = [norm EXCEPT !.first = out,
                          !.pc = IF out.threw THEN "threw" ELSE "once"]
  /\ UNCHANGED << runVars, retry, doc, audit, pair, mask >>

\* normalizeImagePayload(normalizeImagePayload(raw).base64)
NormalizeAgain ==
  /\ norm.pc = "once"
  /\ norm' = [norm EXCEPT
       !.second = normalizeImagePayload(norm.version, "string",
                                        norm.first.base64),
       !.pc = "twice"]
  /\ UNCHANGED << runVars, retry, doc, audit, pair, mask >>

NormNext == Normalize \/ NormalizeAgain

NormSpec == NormInit /\ [][NormNext]_vars

\* The data part is base64 text, possibly with blanks in it.
ValidPayload(p) ==
  /\ \A k \in 1..Len(p) : p[k] \in Base64Alphabet \/ IsSpace(p[k])
  /\ \E k \in 1..Len(p) : p[k] \in Base64Alphabet

\* C19: for a valid base64 or data-URI input, with whatever repeated or
\* malformed prefixes and blanks, normalizing the base64 output once more
\* returns the same payload.
C19_NormalizeIdempotent ==
  (norm.pc = "twice" /\ ValidPayload(norm.input.payload))
  => /\ ~norm.second.threw
     /\ norm.second.base64 = norm.first.base64

\* C20: normalize raises for an input that is undefined, null, empty, without
\* data after its prefixes, or not base64, and never returns an empty
\* payload.
C20_RejectsInvalidInput ==
  norm.pc \in {"once", "threw"} =>
    /\ (~ValidPayload(norm.input.payload) => norm.pc = "threw")
    /\ (norm.pc = "once" => norm.first.base64 # << >>)

\* Both decision gates are met by the run's face-match score and liveness.
GatesPassed ==
  /\ faceMatchScore >= FACE_MATCH_SUCCESS_THRESHOLD
  /\ livenessStatus = LIVENESS_SUCCESS_STATUS

\* C21: storeCustomer(FINISHED) is issued only in a run whose two gates
\* passed and only after the IN_PROGRESS link of the identity; a run that
\* ended declined has not stored FINISHED.
C21_FinishedOnlyAfterGates ==
  /\ (pc = "storeFinished" \/ remoteStatus = "FINISHED") => GatesPassed
  /\ pc = "storeFinished" => remoteStatus = "IN_PROGRESS"
  /\ (Done /\ outcomes # << >> /\ outcomes[Len(outcomes)].kind = "decline")
       => remoteStatus # "FINISHED"

\* Statuses withRetry's callers classify as retryable.
RetryableStatuses == {NoStatus, 429, 503}

\* C22: a run does not fail on the first retryable error of the primary
\* selfie upload: when it aborts on such an error, the upload was attempted
\* more than once.
C22_SelfieUploadRetried ==
  (Done /\ lastErr.op = "uploadSelfie" /\ lastErr.thrown \in RetryableStatuses)
  => calls["uploadSelfie"] > 1

\* The calls of the manual face comparison.
ManualCalls == {"getDocumentPortrait", "detectDocFace", "getFaceTemplate",
                "compareFaces", "detectSuppFace"}

\* The calls of the legacy passive-liveness evaluation.
LivenessCalls == {"ensureLivenessRecord", "uploadAdditionalSelfie",
                  "evaluateLiveness", "evaluateDeepfake"}

\* Place of the steps from the creation of the identity to the inspection
\* of the identity.
HeadRank(op) ==
  IF op = "none" THEN 0
  ELSE IF op = "createCustomer" THEN 1
  ELSE IF op = "storeCustomer" THEN 2
  ELSE IF op = "createDocument" THEN 3
  ELSE IF op = "documentPage" THEN 4
  ELSE IF op = "inspectDocument" THEN 5
  ELSE IF op = "discloseInspection" THEN 6
  ELSE IF op = "uploadSelfie" THEN 7
  ELSE IF op = "detectFace" THEN 8
  ELSE IF op = "checkFaceMask" THEN 9
  ELSE 10

\* Place of the last issued call in the order the claim lists: ..., identity
\* inspection, manual-comparison calls, FINISHED link.
ClaimedRank ==
  IF lastCall = "storeCustomer" /\ calls["storeCustomer"] >= 2 THEN 12
  ELSE IF lastCall \in ManualCalls THEN 11
  ELSE HeadRank(lastCall)

\* Place of the last issued call when the identity inspection fetched again
\* for liveness, and the legacy liveness calls, stand between the manual
\* comparison and the FINISHED link.
ActualRank ==
  IF lastCall = "storeCustomer" /\ calls["storeCustomer"] >= 2 THEN 13
  ELSE IF lastCall = "inspectCustomer" /\ calls["inspectCustomer"] >= 2 THEN 12
  ELSE IF lastCall \in LivenessCalls THEN 12
  ELSE IF lastCall \in ManualCalls THEN 11
  ELSE HeadRank(lastCall)

\* C23 as stated: calls are issued in the order create identity, link
\* IN_PROGRESS, create document, pages, document inspection, disclosure,
\* selfie upload, face detection, mask check, identity inspection, manual
\* comparison, FINISHED link.
C23_FixedCallOrder == [][ClaimedRank' >= ClaimedRank]_vars

\* C23 amended: the same order, with the identity inspection that is fetched
\* again for liveness (and the liveness calls of the legacy workflow) issued
\* after the manual comparison and before the FINISHED link.
C23_CallOrderWithRefetch == [][ActualRank' >= ActualRank]_vars

C23_Witness ==
  /\ remoteStatus = "FINISHED"
  /\ comparisonStrategy = "manual"
  /\ calls["inspectCustomer"] = 2
  /\ calls["compareFaces"] >= 1
  /\ lastCall = "storeCustomer"

\* The run was aborted inside the loop over the supplemental frames because
\* a frame could not be resolved.
SupplementalFrameAbort ==
  /\ Done
  /\ lastErr.op = "resolveImageSource"
  /\ comparisonStrategy = "manual"
  /\ frontImg = "ok"
  /\ selfieImg = "ok"

\* C24: no run is aborted by a supplemental selfie that fails normalization,
\* while the document steps are only reached with a resolved front image and
\* the selfie upload only with a resolved primary selfie.
C24_SupplementalFailureSkipped ==
  /\ ~SupplementalFrameAbort
  /\ pc = "createDocument" => frontImg = "ok"
  /\ pc = "uploadSelfie" => selfieImg = "ok"

\* The document steps that verifyDocument awaits without a catch.
DocumentSteps == {"createDocument", "frontPage", "backPage", "inspectDocument"}

\* C25: when the disclosure step is left, by success or by a failure that
\* withRetry gave up on, the run goes on to the selfie with no error and no
\* outcome recorded and the disclosed inspection present or absent; a run
\* that leaves another document step otherwise than to the next document
\* step has been aborted by that step's error.
C25_DisclosureFailureTolerated ==
  [][/\ (pc = "disclose" /\ pc' # pc)
          => /\ pc' \in {"resolveSelfie", "uploadSelfie"}
             /\ disclosedInspection' \in {"present", "absent"}
             /\ lastErr' = lastErr
             /\ outcomes' = outcomes
     /\ (pc \in DocumentSteps /\ pc' \notin DocumentSteps \cup {"disclose"})
          => /\ pc' = "done"
             /\ lastErr'.op \in RetriedOps
             /\ Len(outcomes') = Len(outcomes) + 1]_vars

C25_Witness ==
  /\ disclosedInspection = "absent"
  /\ lastCall = "uploadSelfie"
  /\ calls["uploadSelfie"] = 1
  /\ lastErr = NoErr
  /\ outcomes = << >>

\* C26: in the implementations that derive liveness from the identity
\* inspection, the status is 'not_live' with confidence 0 exactly when the
\* inspection's selfie block reports a mask, and 'live' with confidence 0.85
\* otherwise, also when the block or its mask flag is missing; the block is
\* that of the step-7 inspection when that call returned a body.
C26_LivenessFromMask ==
  (Gated /\ livenessStatus # "unset") =>
    /\ (inspection.kind = "body" => inspectionForLiveness = inspection.selfie)
    /\ inspectionForLiveness \in SelfieBlocks
    /\ (inspectionForLiveness = "mask"
          => livenessStatus = "not_live" /\ livenessConfidence = 0)
    /\ (inspectionForLiveness \in {"noblock", "noflag", "nomask"}
          => livenessStatus = "live" /\ livenessConfidence = 85)

C26_Witness ==
  /\ Gated
  /\ Done
  /\ inspectionForLiveness = "mask"
  /\ livenessStatus = "not_live"
  /\ livenessConfidence = 0

\* C27: a run issues at most two inspectCustomer calls; the second is issued
\* only when the step-7 call failed or answered nothing; the second call
\* either yields the liveness result or aborts the run with its error.
C27_InspectionReused ==
  [][/\ calls'["inspectCustomer"] <= 2
     /\ (calls'["inspectCustomer"] = 2
           => inspection'.kind \in {"failed", "nothing"})
     /\ (pc = "inspectLiveness"
           => \/ pc' = "decide" /\ livenessStatus' # "unset"
              \/ /\ pc' = "done"
                 /\ lastErr'.op = "inspectCustomer"
                 /\ livenessStatus' = "unset")]_vars

C27_Witness ==
  /\ Done
  /\ calls["inspectCustomer"] = 2
  /\ inspection.kind = "nothing"
  /\ lastErr.op = "inspectCustomer"
  /\ livenessStatus = "unset"

\* C28: on the manual path the reference face is detected in the document's
\* front-page image, and one face template, fetched once, is the reference of
\* every comparison of the run.
C28_ReferenceFromFrontPage ==
  /\ calls["detectDocFace"] <= 1
  /\ calls["getFaceTemplate"] <= 1
  /\ (calls["compareFaces"] >= 1 => calls["getFaceTemplate"] = 1)
  /\ (calls["detectDocFace"] >= 1
        => comparisonStrategy = "manual" /\ faceSource = "front")

\* The payload the controller hands to recordError for the error it caught:
\* the code is error.response.status (absent when the error has none), the
\* context is error.response.data or, without a response, the message.
errorPayload(e) ==
  [message |-> ErrMessage(e),
   code |-> e.status,
   context |-> IF e.status # NoStatus THEN "response.data" ELSE "message"]

\* C29: when the controller's run is aborted by a provider call that failed
\* with an HTTP status, the ERROR event it records has that status as its
\* code and the provider's error payload as its context.
C29_ErrorEventCarriesStatus ==
  (Done /\ impl = "controller" /\ customerId /\ lastErr.op # "none"
        /\ lastErr.thrown # NoStatus)
  => /\ errorPayload(lastErr).code = lastErr.thrown
     /\ errorPayload(lastErr).context = "response.data"

\* C30: a run of the event workflows that created its result object ends
\* with exactly one outcome, for which serializeResult was invoked exactly
\* once, on a result whose overallStatus is terminal.
C30_SerializedOncePerRun ==
  (Done /\ impl \in {"workflow", "legacy"} /\ overallStatus # "none")
  => /\ Len(outcomes) = 1
     /\ outcomes[1].serialized = 1
     /\ outcomes[1].results = overallStatus
     /\ overallStatus \in Terminal

\* C31: every outcome the event workflows return is consistent with its
\* status: a success event carries no decline reason and comes with results
\* whose overallStatus is 'completed'; a decline event comes with no results
\* or with results whose overallStatus is 'failed'.
C31_OutcomeMatchesStatus ==
  impl \in {"workflow", "legacy"} =>
    \A k \in 1..Len(outcomes) :
      /\ outcomes[k].kind \in {"success", "decline"}
      /\ (outcomes[k].kind = "success"
            => outcomes[k].results = "completed" /\ outcomes[k].reason = "")
      /\ (outcomes[k].kind = "decline"
            => outcomes[k].results \in {"none", "failed"}
               /\ outcomes[k].reason # "")

C31_Witness ==
  /\ impl = "legacy"
  /\ Done
  /\ Len(outcomes) = 1
  /\ outcomes[1].kind = "decline"
  /\ outcomes[1].results = "failed"
  /\ lastErr.op # "none"

RECURSIVE Pow(_, _)
Pow(b, e) == IF e = 0 THEN 1 ELSE b * Pow(b, e - 1)

\* C32: the k-th retry sleeps, and reports to onRetry, the delay
\* min(delayMs * backoffFactor^(k-1), maxDelayMs), which never exceeds
\* maxDelayMs, also when delayMs itself exceeds maxDelayMs.
C32_DelayCapped ==
  retry.pc # "idle" =>
    /\ \A k \in 1..Len(retry.sleeps) :
         /\ retry.sleeps[k] <= retry.policy.maxDelayMs
         /\ retry.sleeps[k] =
              Min(retry.policy.delayMs * Pow(retry.policy.backoffFactor, k - 1),
                  retry.policy.maxDelayMs)
    /\ \A k \in 1..Len(retry.onRetry) :
         retry.onRetry[k].delayMs <= retry.policy.maxDelayMs

\* C33: onRetry is called once for every retry, after the failed attempt and
\* before the sleep and the next attempt, with the number of that attempt; it
\* is not called for the failure that is re-thrown, be it the last allowed
\* one or one the predicate refuses.
C33_OnRetryBeforeSleep ==
  retry.pc # "idle" =>
    /\ \A k \in 1..Len(retry.onRetry) : retry.onRetry[k].attempt = k
    /\ (retry.pc \in {"call", "returned"}
          => /\ Len(retry.onRetry) = retry.attempt
             /\ Len(retry.sleeps) = retry.attempt)
    /\ (retry.pc = "sleep"
          => /\ Len(retry.onRetry) = retry.attempt
             /\ Len(retry.sleeps) = retry.attempt - 1)
    /\ (retry.pc \in {"onRetry", "threw"}
          => /\ Len(retry.onRetry) = retry.attempt - 1
             /\ Len(retry.sleeps) = retry.attempt - 1)

C33_Witness ==
  /\ retry.pc = "threw"
  /\ retry.pred = "controller"
  /\ retry.attempt = 3
  /\ retry.error = 400
  /\ Len(retry.onRetry) = 2
  /\ retry.onRetry[2].error = 503

\* ------------------------------------------------- the document summary
MaxWarnings == 2

WarningCodes == {"w1", "w2"}
ErrorCodes == {"absent", "emptystr", "e1", "e2"}
PageTypes == {"front", "back", "unknown"}

\* page.documentType: absent, or an object whose fields may be empty.
DocumentTypes ==
  {[present |-> FALSE, type |-> "absent", issuingCountry |-> "absent"],
   [present |-> TRUE, type |-> "passport", issuingCountry |-> "NG"],
   [present |-> TRUE, type |-> "id_card", issuingCountry |-> "emptystr"],
   [present |-> TRUE, type |-> "emptystr", issuingCountry |-> "GH"]}

\* page.warnings: absent, or a list.
WarningLists ==
  {[present |-> FALSE, list |-> << >>]}
  \cup {[present |-> TRUE, list |-> l] : l \in SeqsUpTo(WarningCodes, MaxWarnings)}

\* The page results the provider may answer an upload with.
DocumentPageResults ==
  [pageType : PageTypes, documentType : DocumentTypes,
   warnings : WarningLists, errorCode : ErrorCodes]

\* Mutant: the summary always reads the first uploaded page.
findFirst(pages) == pages[1]

\* pages.find(page => page.pageType === 'front') ?? pages[0]
findFront(pages) ==
  IF \E i \in 1..Len(pages) : pages[i].pageType = "front"
    THEN pages[CHOOSE i \in 1..Len(pages) :
                 /\ pages[i].pageType = "front"
                 /\ \A j \in 1..(i - 1) : pages[j].pageType # "front"]
    ELSE pages[1]

\* Array.from(new Set(list)): first occurrences, in order.
RECURSIVE uniqueOf(_)
uniqueOf(list) ==
  IF list = << >> THEN << >>
  ELSE LET init == uniqueOf(SubSeq(list, 1, Len(list) - 1))
           last == list[Len(list)] IN
       IF \E k \in 1..Len(init) : init[k] = last THEN init
       ELSE Append(init, last)

\* pages.flatMap(page => page.warnings ?? [])
collectWarnings(pages) ==
  Flatten([i \in 1..Len(pages) |-> pages[i].warnings.list])

\* pages.map(page => page.errorCode).filter(Boolean)
collectErrors(pages) ==
  SelectSeq([i \in 1..Len(pages) |-> pages[i].errorCode], Truthy)

\* frontPage?.documentType?.type, and the same for issuingCountry
detectedType(page) ==
  IF page.documentType.present THEN page.documentType.type ELSE "absent"

detectedCountry(page) ==
  IF page.documentType.present THEN page.documentType.issuingCountry
  ELSE "absent"

\* The DocumentVerificationSummary; a key is spread in only when its value
\* is truthy (a list: when it is not empty).
summaryOf(pages) ==
  LET frontPage == findFront(pages)
      collectedWarnings == uniqueOf(collectWarnings(pages))
      collectedErrors == uniqueOf(collectErrors(pages)) IN
  [keys |-> (IF Truthy(detectedType(frontPage)) THEN {"documentType"} ELSE {})
            \cup (IF Truthy(detectedCountry(frontPage))
                    THEN {"issuingCountry"} ELSE {})
            \cup (IF Len(collectedWarnings) > 0 THEN {"warnings"} ELSE {})
            \cup (IF Len(collectedErrors) > 0 THEN {"errors"} ELSE {}),
   documentType |-> IF Truthy(detectedType(frontPage))
                      THEN detectedType(frontPage) ELSE "absent",
   issuingCountry |-> IF Truthy(detectedCountry(frontPage))
                        THEN detectedCountry(frontPage) ELSE "absent",
   warnings |-> collectedWarnings,
   errors |-> collectedErrors]

NoSummary ==
  [keys |-> {}, documentType |-> "absent", issuingCountry |-> "absent",
   warnings |-> << >>, errors |-> << >>]

SummaryInit ==
  /\ RunInit
  /\ impl = "workflow"
  /\ retry = RetryIdle
  /\ norm = NormIdle
  /\ audit = AuditIdle
  /\ pair = PairIdle
  /\ mask = MaskIdle
  /\ \E front \in DocumentPageResults :
       doc = [pc |-> "front", pages |-> << front >>, summary |-> NoSummary]

\* pages.push(backPageResponse.data), when a back image was given
PushBackPage ==
  /\ doc.pc = "front"
  /\ \E back \in DocumentPageResults :
       doc' = [doc EXCEPT !.pc = "pages", !.pages = Append(@, back)]
  /\ UNCHANGED << runVars, retry, norm, audit, pair, mask >>

\* verifyDocument: the summary of the uploaded pages
BuildSummary ==
  /\ doc.pc \in {"front", "pages"}
  /\ doc' = [doc EXCEPT !.pc = "summary", !.summary = summaryOf(doc.pages)]
  /\ UNCHANGED << runVars, retry, norm, audit, pair, mask >>

SummaryNext == PushBackPage \/ BuildSummary

SummarySpec == SummaryInit /\ [][SummaryNext]_vars

ToSet(list) == {list[k] : k \in 1..Len(list)}

NoDuplicates(list) ==
  \A a, b \in 1..Len(list) : list[a] = list[b] => a = b

\* The page the claim reads the type and the country from.
TaggedFront(pages) ==
  LET tagged == {i \in 1..Len(pages) : pages[i].pageType = "front"} IN
  IF tagged = {} THEN pages[1]
  ELSE pages[CHOOSE i \in tagged : \A j \in tagged : i <= j]

\* C34: the summary's warnings and errors are the duplicate-free union of
\* the warnings and of the (non-empty) error codes of all uploaded pages,
\* and its documentType and issuingCountry are those of the first page
\* tagged 'front', of the first uploaded page when none is tagged; a value
\* that is absent or empty leaves its key out of the summary.
C34_SummaryOfPages ==
  doc.pc = "summary" =>
    LET pages == doc.pages
        sum == doc.summary
        f == TaggedFront(pages)
        typ == IF f.documentType.present THEN f.documentType.type ELSE "absent"
        ctr == IF f.documentType.present THEN f.documentType.issuingCountry
               ELSE "absent" IN
    /\ ToSet(sum.warnings) =
         UNION {ToSet(pages[i].warnings.list) : i \in 1..Len(pages)}
    /\ NoDuplicates(sum.warnings)
    /\ ToSet(sum.errors) =
         {pages[i].errorCode : i \in 1..Len(pages)} \ {"absent", "emptystr"}
    /\ NoDuplicates(sum.errors)
    /\ ("warnings" \in sum.keys <=> sum.warnings # << >>)
    /\ ("errors" \in sum.keys <=> sum.errors # << >>)
    /\ (IF typ \in {"absent", "emptystr"}
          THEN "documentType" \notin sum.keys
          ELSE "documentType" \in sum.keys /\ sum.documentType = typ)
    /\ (IF ctr \in {"absent", "emptystr"}
          THEN "issuingCountry" \notin sum.keys
          ELSE "issuingCountry" \in sum.keys /\ sum.issuingCountry = ctr)

C34_Witness ==
  /\ doc.pc = "summary"
  /\ Len(doc.pages) = 2
  /\ doc.pages[1].pageType = "unknown"
  /\ doc.pages[2].pageType = "front"
  /\ doc.pages[1].warnings.list = << "w1", "w1" >>
  /\ doc.pages[2].warnings.list = << "w2", "w1" >>
  /\ doc.pages[1].errorCode = "e1"
  /\ doc.pages[2].errorCode = "e1"
  /\ doc.pages[1].documentType.type = "passport"
  /\ doc.summary.documentType = "id_card"
  /\ doc.summary.warnings = << "w1", "w2" >>
  /\ doc.summary.errors = << "e1" >>

\* ------------------------------------------------------ concurrent runs
MaxRuns == 2

Runs == 1..MaxRuns

\* What the provider holds for an identity: the selfie uploaded under it.
Selfies == {"match", "mismatch"}

\* Mutant: the identity is a field of the shared workflow object, which
\* every createCustomer overwrites.
sharedCustomerId(r) == pair.minted

\* let customerId: a local of the run
ownCustomerId(r) == pair.run[r].customerId

PairInit ==
  /\ RunInit
  /\ impl = "workflow"
  /\ retry = RetryIdle
  /\ norm = NormIdle
  /\ doc = DocIdle
  /\ audit = AuditIdle
  /\ mask = MaskIdle
  /\ \E images \in [Runs -> Selfies] :
       pair = [pc |-> "running",
               minted |-> 0,
               selfies |-> [id \in Runs |-> "none"],
               run |-> [r \in Runs |->
                  [pc |-> "createCustomer", image |-> images[r],
                   customerId |-> 0, used |-> {}, failed |-> FALSE,
                   faceMatch |-> "none", outcome |-> "none"]]]

\* A provider call of run r that fails: the catch block declines.
PairAbort(r, id) ==
  pair' = [pair EXCEPT !.run[r].pc = "done",
                       !.run[r].failed = TRUE,
                       !.run[r].used = @ \cup id,
                       !.run[r].outcome = "verification_failed"]

\* customerId = (await this.createCustomer()).id
PairCreateCustomer(r) ==
  /\ pair.pc = "running"
  /\ pair.run[r].pc = "createCustomer"
  /\ \E ok \in BOOLEAN :
       IF ok
         THEN pair' = [pair EXCEPT !.minted = @ + 1,
                                   !.run[r].customerId = pair.minted + 1,
                                   !.run[r].pc = "storeCustomer"]
         ELSE PairAbort(r, {})
  /\ UNCHANGED << runVars, retry, norm, doc, audit, mask >>

\* await this.storeCustomer(customerId, ...)
PairStoreCustomer(r) ==
  /\ pair.pc = "running"
  /\ pair.run[r].pc = "storeCustomer"
  /\ \E ok \in BOOLEAN :
       IF ok
         THEN pair' = [pair EXCEPT !.run[r].pc = "uploadSelfie",
                                   !.run[r].used = @ \cup {ownCustomerId(r)}]
         ELSE PairAbort(r, {ownCustomerId(r)})
  /\ UNCHANGED << runVars, retry, norm, doc, audit, mask >>

\* await this.uploadSelfie(customerId, primarySelfie.base64)
PairUploadSelfie(r) ==
  /\ pair.pc = "running"
  /\ pair.run[r].pc = "uploadSelfie"
  /\ \E ok \in BOOLEAN :
       IF ok
         THEN pair' = [pair EXCEPT
                !.selfies[ownCustomerId(r)] = pair.run[r].image,
                !.run[r].pc = "inspectCustomer",
                !.run[r].used = @ \cup {ownCustomerId(r)}]
         ELSE PairAbort(r, {ownCustomerId(r)})
  /\ UNCHANGED << runVars, retry, norm, doc, audit, mask >>

\* inspection = await this.inspectCustomer(customerId).catch(() => undefined)
PairInspectCustomer(r) ==
  /\ pair.pc = "running"
  /\ pair.run[r].pc = "inspectCustomer"
  /\ \E ok \in BOOLEAN :
       IF ok
         THEN pair' = [pair EXCEPT
                !.run[r].faceMatch = pair.selfies[ownCustomerId(r)],
                !.run[r].pc = "decide",
                !.run[r].used = @ \cup {ownCustomerId(r)}]
         ELSE pair' = [pair EXCEPT
                !.run[r].pc = "manualComparison",
                !.run[r].used = @ \cup {ownCustomerId(r)}]
  /\ UNCHANGED << runVars, retry, norm, doc, audit, mask >>

\* The manual comparison of the run's selfie with the face of its document,
\* fetched with getDocumentPortrait(customerId).
PairManualComparison(r) ==
  /\ pair.pc = "running"
  /\ pair.run[r].pc = "manualComparison"
  /\ \E ok \in BOOLEAN :
       IF ok
         THEN pair' = [pair EXCEPT
                !.run[r].faceMatch = pair.run[r].image,
                !.run[r].pc = "decide",
                !.run[r].used = @ \cup {ownCustomerId(r)}]
         ELSE PairAbort(r, {ownCustomerId(r)})
  /\ UNCHANGED << runVars, retry, norm, doc, audit, mask >>

\* The decision of the run, from the face match it obtained.
PairDecide(r) ==
  /\ pair.pc = "running"
  /\ pair.run[r].pc = "decide"
  /\ pair' = [pair EXCEPT
       !.run[r].pc = "done",
       !.run[r].outcome = IF pair.run[r].faceMatch = "match"
                            THEN "completed" ELSE "face_match_failed"]
  /\ UNCHANGED << runVars, retry, norm, doc, audit, mask >>

PairNext ==
  \E r \in Runs :
    \/ PairCreateCustomer(r)
    \/ PairStoreCustomer(r)
    \/ PairUploadSelfie(r)
    \/ PairInspectCustomer(r)
    \/ PairManualComparison(r)
    \/ PairDecide(r)

PairSpec == PairInit /\ [][PairNext]_vars

\* The outcome of run r executed alone with the same provider responses.
AloneOutcome(r) ==
  IF pair.run[r].failed THEN "verification_failed"
  ELSE IF pair.run[r].image = "match" THEN "completed"
  ELSE "face_match_failed"

\* C35: with the runs interleaved arbitrarily, every provider call of a run
\* uses only the identity that run created, no identity belongs to two
\* runs, and a finished run has the outcome it would have alone with the
\* same provider responses.
C35_RunsIsolated ==
  pair.pc = "running" =>
    \A r \in Runs :
      /\ pair.run[r].used \subseteq {pair.run[r].customerId}
      /\ 0 \notin pair.run[r].used
      /\ \A q \in Runs \ {r} :
           pair.run[r].customerId # 0
             => pair.run[q].customerId # pair.run[r].customerId
      /\ (pair.run[r].pc = "done" => pair.run[r].outcome = AloneOutcome(r))

C35_Witness ==
  /\ pair.pc = "running"
  /\ pair.run[1].pc = "done" /\ pair.run[2].pc = "done"
  /\ pair.run[1].customerId = 2 /\ pair.run[2].customerId = 1
  /\ pair.run[1].outcome = "completed"
  /\ pair.run[2].outcome = "face_match_failed"
  /\ pair.run[1].used = {2}

\* ------------------------------------------------ recordRetry of the audit
MaxRecorders == 3

\* The recordRetry calls fired from onRetry; none is awaited.
Recorders == 1..MaxRecorders

\* The two persistence modules: over Supabase and over Prisma.
Stores == {"supabase", "prisma"}

AuditInit ==
  /\ RunInit
  /\ impl = "controller"
  /\ retry = RetryIdle
  /\ norm = NormIdle
  /\ doc = DocIdle
  /\ pair = PairIdle
  /\ mask = MaskIdle
  /\ \E st \in Stores :
       audit = [pc |-> "recording", store |-> st,
                retry_count |-> 0, events |-> 0, dbErrors |-> 0,
                rec |-> [c \in Recorders |->
                           [pc |-> "start", existing |-> 0]]]

\* const existing = await fetchOnboardingRow(innovatricsCustomerId)
FetchOnboardingRow(c) ==
  /\ audit.pc = "recording"
  /\ audit.store = "supabase"
  /\ audit.rec[c].pc = "start"
  /\ \E ok \in BOOLEAN :
       IF ok
         THEN audit' = [audit EXCEPT !.rec[c].pc = "update",
                                     !.rec[c].existing = audit.retry_count]
         ELSE audit' = [audit EXCEPT !.rec[c].pc = "done",
                                     !.dbErrors = @ + 1]
  /\ UNCHANGED << runVars, retry, norm, doc, pair, mask >>

\* updateOnboardingRecord: update({retry_count: existing.retry_count + 1})
UpdateOnboardingRecord(c) ==
  /\ audit.pc = "recording"
  /\ audit.rec[c].pc = "update"
  /\ \E ok \in BOOLEAN :
       IF ok
         THEN audit' = [audit EXCEPT !.rec[c].pc = "insertEvent",
                                     !.retry_count = audit.rec[c].existing + 1]
         ELSE audit' = [audit EXCEPT !.rec[c].pc = "done",
                                     !.dbErrors = @ + 1]
  /\ UNCHANGED << runVars, retry, norm, doc, pair, mask >>

\* updateOnboardingRecord: await insertEvent(record.id, event)
InsertEvent(c) ==
  /\ audit.pc = "recording"
  /\ audit.rec[c].pc = "insertEvent"
  /\ \E ok \in BOOLEAN :
       IF ok
         THEN audit' = [audit EXCEPT !.rec[c].pc = "done",
                                     !.events = @ + 1]
         ELSE audit' = [audit EXCEPT !.rec[c].pc = "done",
                                     !.dbErrors = @ + 1]
  /\ UNCHANGED << runVars, retry, norm, doc, pair, mask >>

\* safeUpdate: one update with retryCount: {increment: 1} and the nested
\* creation of the event
SafeUpdate(c) ==
  /\ audit.pc = "recording"
  /\ audit.store = "prisma"
  /\ audit.rec[c].pc = "start"
  /\ \E ok \in BOOLEAN :
       IF ok
         THEN audit' = [audit EXCEPT !.rec[c].pc = "done",
                                     !.retry_count = @ + 1,
                                     !.events = @ + 1]
         ELSE audit' = [audit EXCEPT !.rec[c].pc = "done",
                                     !.dbErrors = @ + 1]
  /\ UNCHANGED << runVars, retry, norm, doc, pair, mask >>

AuditNext ==
  \E c \in Recorders :
    \/ FetchOnboardingRow(c)
    \/ UpdateOnboardingRecord(c)
    \/ InsertEvent(c)
    \/ SafeUpdate(c)

AuditSpec == AuditInit /\ [][AuditNext]_vars

AllRecorded == \A c \in Recorders : audit.rec[c].pc = "done"

\* C36: once every recordRetry call fired for an identity has returned, and
\* no database operation failed, retry_count equals the number of RETRY
\* events of the identity, however the calls interleaved.
C36_RetryCountMatchesEvents ==
  (audit.pc = "recording" /\ AllRecorded /\ audit.dbErrors = 0)
    => audit.retry_count = audit.events

\* The run was aborted by a provider call on a supplemental frame: the
\* primary score had been obtained by manual comparison already.
SupplementalCallAbort ==
  /\ Done
  /\ comparisonStrategy = "manual"
  /\ lastErr.op \in {"detectFace", "compareFaces"}
  /\ Len(faceMatchScores) >= 1

\* C37: on the manual path the loop over the supplemental frames is reached
\* only with the primary score in the list (a failure before it aborts the
\* run), a failure to detect or compare a supplemental frame aborts no run,
\* and a finished manual comparison has a score list that is not empty.
C37_SupplementalFailureDropsFrame ==
  Gated =>
    /\ (pc \in {"suppNext", "detectSupp", "compareSupp"}
          => Len(faceMatchScores) >= 1)
    /\ ((faceComparisonSet /\ comparisonStrategy = "manual")
          => Len(faceMatchScores) >= 1)
    /\ ~SupplementalCallAbort

\* --------------------------------------------- the mask check of step 6
\* The score GET /faces/{id}/face-mask may answer, in hundredths.
MaskScores == {0, 50, 100}

NoMaskResult == -1

\* The two runs that are compared.
Copies == 1..2

\* Mutant: a high mask score makes the liveness 'not_live'.
livenessStatusByMask(verification, insp) ==
  IF verification.maskResult >= 50 THEN "not_live" ELSE livenessOf(insp.selfie)

\* livenessStatus = hasMask ? 'not_live' : 'live', with hasMask read from
\* inspectionForLiveness.selfieInspection
livenessStatusOf(verification, insp) == livenessOf(insp.selfie)

MaskInit ==
  /\ RunInit
  /\ retry = RetryIdle
  /\ norm = NormIdle
  /\ doc = DocIdle
  /\ audit = AuditIdle
  /\ pair = PairIdle
  /\ impl \in {"workflow", "controller"}
  /\ \E sc \in {50, FACE_MATCH_SUCCESS_THRESHOLD, 80}, m \in SelfieBlocks :
       mask = [pc |-> "running",
               inspection |-> [kind |-> "body", score |-> sc, selfie |-> m],
               copy |-> [k \in Copies |->
                  [pc |-> "checkFaceMask", maskResult |-> NoMaskResult,
                   livenessStatus |-> "none", overallStatus |-> "pending",
                   reason |-> ""]]]

\* maskResult = await this.checkFaceMask(primaryFaceDetection.id);
\* verification.faceDetection = {..., maskResult}
MaskCheckFaceMask(k) ==
  /\ mask.pc = "running"
  /\ mask.copy[k].pc = "checkFaceMask"
  /\ \E r \in Resp :
       IF r = HttpOk
         THEN \E score \in MaskScores :
                mask' = [mask EXCEPT !.copy[k].pc = "liveness",
                                     !.copy[k].maskResult = score]
         ELSE mask' = [mask EXCEPT !.copy[k].pc = "done",
                                   !.copy[k].overallStatus = "failed",
                                   !.copy[k].reason = "verification_failed"]
  /\ UNCHANGED << runVars, retry, norm, doc, audit, pair >>

\* The liveness result of the run, from the inspection of the identity.
MaskLiveness(k) ==
  /\ mask.pc = "running"
  /\ mask.copy[k].pc = "liveness"
  /\ mask' = [mask EXCEPT
       !.copy[k].pc = "decide",
       !.copy[k].livenessStatus = livenessStatusOf(mask.copy[k], mask.inspection)]
  /\ UNCHANGED << runVars, retry, norm, doc, audit, pair >>

\* The two gates and the decline-reason tag.
MaskDecide(k) ==
  /\ mask.pc = "running"
  /\ mask.copy[k].pc = "decide"
  /\ LET score == inspectionScore(mask.inspection)
         fp == faceMatchPassed(impl, << score >>, score)
         lp == livenessPassed(mask.copy[k].livenessStatus) IN
     mask' = [mask EXCEPT
       !.copy[k].pc = "done",
       !.copy[k].overallStatus = IF fp /\ lp THEN "completed" ELSE "failed",
       !.copy[k].reason = IF fp /\ lp THEN ""
                          ELSE declineReasonTag(declineReasons(fp, lp))]
  /\ UNCHANGED << runVars, retry, norm, doc, audit, pair >>

MaskNext ==
  \E k \in Copies : MaskCheckFaceMask(k) \/ MaskLiveness(k) \/ MaskDecide(k)

MaskSpec == MaskInit /\ [][MaskNext]_vars

\* C38: two runs with the same inputs and the same provider responses but
\* for the score that checkFaceMask answered end with the same
\* overallStatus and the same decline-reason tag.
C38_MaskScoreIgnored ==
  (/\ mask.pc = "running"
   /\ \A k \in Copies : mask.copy[k].pc = "done"
   /\ \A k \in Copies : mask.copy[k].maskResult # NoMaskResult)
  => /\ mask.copy[1].overallStatus = mask.copy[2].overallStatus
     /\ mask.copy[1].reason = mask.copy[2].reason

C38_Witness ==
  /\ mask.pc = "running"
  /\ mask.copy[1].pc = "done" /\ mask.copy[2].pc = "done"
  /\ mask.copy[1].maskResult = 0
  /\ mask.copy[2].maskResult = 100
  /\ mask.copy[1].overallStatus = "completed"
  /\ mask.copy[2].overallStatus = "completed"

\* The answer the controller sent, once it sent one.
Response == outcomes[1]

\* What holds of the answers of the HTTP endpoint whatever the audit store
\* did: one answer per request, sent when the run ends; 400 before any
\* provider call and for every absent or empty front document or primary
\* selfie; 422 for a decision decline; 500 for every aborted run; 200 only
\* with both gates passed and FINISHED stored at the provider.
ResponseRules ==
  /\ Len(outcomes) <= 1
  /\ (Done <=> Len(outcomes) = 1)
  /\ (pc \notin {"start", "done"} => Truthy(frontImg) /\ Truthy(selfieImg))
  /\ Done =>
       /\ Response.http \in {200, 400, 422, 500}
       /\ (Response.http = 400
             <=> (lastCall = "none" /\ lastErr = NoErr))
       /\ (Response.http = 400 => (frontMissing \/ selfieMissing))
       /\ (Response.http = 500 <=> lastErr # NoErr)
       /\ (Response.http = 422
             <=> /\ lastErr = NoErr
                 /\ faceComparisonSet
                 /\ ~GatesPassed)
       /\ (Response.http = 422 => overallStatus = "failed")
       /\ (Response.http = 200
             => /\ GatesPassed
                /\ overallStatus = "completed"
                /\ remoteStatus = "FINISHED")

WorkflowTag ==
  IF lastErr # NoErr THEN "verification_failed"
  ELSE IF lastCall = "none" THEN "missing_input"
  ELSE IF GatesPassed THEN ""
  ELSE IF faceMatchScore >= FACE_MATCH_SUCCESS_THRESHOLD THEN "liveness_failed"
  ELSE IF livenessStatus = LIVENESS_SUCCESS_STATUS THEN "face_match_failed"
  ELSE "face_match_failed|liveness_failed"

\* C40: the controller and the event workflow decide alike: a finished run of
\* either carries the decline-reason tag the workflow gives to what happened
\* in it, a run that reached the decision is 'completed' exactly when both
\* gates passed, with the score and the strategy of its comparison, and no
\* run is aborted by a supplemental frame, which the workflow drops.
C40_SameDecisionProcedure ==
  (Gated /\ Done) =>
    /\ outcomes[1].reason = WorkflowTag
    /\ ~SupplementalCallAbort
    /\ (faceComparisonSet /\ lastErr = NoErr)
         => /\ overallStatus = (IF GatesPassed THEN "completed" ELSE "failed")
            /\ (comparisonStrategy = "inspection"
                  => faceMatchScore = inspectionScore(inspection))
            /\ (comparisonStrategy = "manual"
                  => faceMatchScore = MaxOf(faceMatchScores))

====
